---- MODULE Spec2Model ----
(***************************************************************************)
(* Fact consistency and tiering engine of cortex: the in-memory fact      *)
(* store, the conflict resolver, the extraction pipeline, the decay       *)
(* manager, the context hydrator and the tiered (hot/cold) store.         *)
(*                                                                         *)
(* One module, several specifications.  Each specification drives one     *)
(* component and leaves the variables of the others at their initial      *)
(* values:                                                                 *)
(*   Spec         the extraction pipeline over an InMemoryAdapter          *)
(*   SpecDecay    DecayManager evaluated on bounded facts and times        *)
(*   SpecHydrate  ContextHydrator.hydrate over an InMemoryAdapter          *)
(*   SpecTiered   TieredAdapter over two InMemoryAdapters                  *)
(*   SpecQueue    the task queue of ExtractorWorker, digest and drain       *)
(*   SpecValidate processTask over parsed LLM responses                     *)
(*   SpecCache    SemanticCache get, set, invalidate and clear              *)
(*   SpecCachePrincipals  the same cache shared by two principals           *)
(*   SpecConsolidation    ConsolidationWorker over an InMemoryAdapter       *)
(***************************************************************************)
EXTENDS Integers, Sequences, FiniteSets, TLC

VARIABLES
    clock,          \* the value `new Date()` / Date.now() returns
    \* ---- extraction pipeline (ExtractorWorker + ConflictResolver) ----
    rawResult,      \* the LLM response as processTask parsed it (NoRaw: none yet)
    strategy,       \* ConflictResolver.strategy
    mem,            \* InMemoryAdapter.users: user -> Map<string, MemoryFact>
    pc,             \* position of processTask between its awaits
    task,           \* the ExtractionTask being processed
    confident,      \* confidentOperations
    existingFacts,  \* resolve's snapshot of the user's valid facts
    resolved,       \* resolvedOperations
    conflicts,      \* ConflictResolutionResult.conflicts
    idx,            \* applyOperations' position in resolvedOperations
    matching,       \* the fact a DELETE found, between getFacts and deleteFact
    opsLeft,        \* operations the extraction collaborator may still propose
    \* ---- DecayManager ----
    dCfg,           \* DecayManager.config
    dFact,          \* the FactWithDecay under evaluation
    dNow,           \* Date.now(), in hours
    dOut,           \* what the three calculations returned for dFact at dNow
    \* ---- ContextHydrator ----
    hydrated,       \* HydratedContext.facts of the last hydrate call
    accessPending,  \* recordAccess: the facts whose updateFact is still to run
    hBudget,        \* addFact / hydrate calls the run may still make
    \* ---- TieredAdapter ----
    hot,            \* the hot InMemoryAdapter: user -> entries
    cold,           \* the cold InMemoryAdapter: user -> entries
    tConfig,        \* TieredAdapter.config
    nextId,         \* the next value uuidv4() hands out
    tCalls,         \* TieredAdapter calls and direct cold writes the run may still make
    tResult,        \* how the last TieredAdapter call ended
    \* ---- ExtractorWorker queue, MemoryOS.digest / drain ----
    queue,          \* ExtractorWorker.queue
    processing,     \* ExtractorWorker.processing
    pendingDigests, \* digest calls whose ensureInitialized().then callback has not run
    dpc,            \* position of a drain() caller: "none", "polling", "resolved"
    submitted,      \* exchanges handed to digest or enqueue so far
    enqOrder,       \* the exchanges in the order enqueue received them
    startOrder,     \* the exchanges in the order processTask was entered for them
    finished,       \* the exchanges whose processTask has returned or thrown
    lastThrew,      \* the task processed last has thrown
    exchanges,      \* how many exchanges the application submits in this run
    drainAwaits,    \* the exchanges submitted before drain() was called
    taskBefore,     \* the user's valid facts when the task in flight was started
    applyFailed,    \* a storage call failed inside applyOperations for the task in flight
    \* ---- semantic cache (SemanticCache) ----
    cache,          \* SemanticCache.cache: userId -> array of entries
    cStats,         \* SemanticCache.stats
    cConfig,        \* SemanticCache.config
    cResult,        \* the last get: its arguments and what it returned
    cOps,           \* calls made so far
    \* ---- consolidation (ConsolidationWorker over an InMemoryAdapter) ----
    cwMem,          \* the adapter's users: userId -> Map<string, MemoryFact>
    cwConfig,       \* ConsolidationWorker.config
    cwNow,          \* Date.now(), in hours
    cwResult,       \* what the last call returned, when it was a call of the worker
    cwOps,          \* calls that wrote to the adapter so far
    cwForeign,      \* <<user, id>> of the facts whose stage a caller other than consolidate wrote last
    \* ---- direct calls (an InMemoryAdapter; a TieredAdapter's sessions) ----
    sFacts,         \* the adapter's users: userId -> Map<string, MemoryFact>
    sHot,           \* hot adapter: userId -> Map<string, Session>
    sCold,          \* cold adapter: userId -> Map<string, Session>
    sResult,        \* what the last call returned or threw
    sOps,           \* calls made so far
    \* ---- overlapping digestions (two processTask runs, one InMemoryAdapter) ----
    oMem,           \* the adapter's users: userId -> Map<string, MemoryFact>
    oPc,            \* per run: the await at which its processTask stands
    oConfident,     \* per run: confidentOperations
    oResolved,      \* per run: resolvedOperations
    oIdx,           \* per run: position of applyOperations' loop (1-based)
    oMatching,      \* per run: matchingFact.id found for the DELETE in progress, or Null
    oOpsLeft        \* operations the collaborator may still propose

pipeVars == <<rawResult, strategy, mem, pc, task, confident, existingFacts, resolved,
              conflicts, idx, matching, opsLeft>>
decayVars == <<dCfg, dFact, dNow, dOut>>
hydrateVars == <<hydrated, accessPending, hBudget>>
tieredVars == <<hot, cold, tConfig, nextId, tCalls, tResult>>
queueVars == <<queue, processing, pendingDigests, dpc, submitted, enqOrder, startOrder,
               finished, lastThrew, exchanges, drainAwaits, taskBefore, applyFailed>>
cacheVars == <<cache, cStats, cConfig, cResult, cOps>>
consVars == <<cwMem, cwConfig, cwNow, cwResult, cwOps, cwForeign>>
storeVars == <<sFacts, sHot, sCold, sResult, sOps>>
overlapVars == <<oMem, oPc, oConfident, oResolved, oIdx, oMatching, oOpsLeft>>
vars == <<clock, pipeVars, decayVars, hydrateVars, tieredVars, queueVars, cacheVars,
          consVars, storeVars, overlapVars>>

(***************************************************************************)
(* Bounds of the model.                                                    *)
(***************************************************************************)
MaxOps == 3       \* operations proposed by the collaborator over one run
MaxDays == 2      \* the decay clock covers the hours around day 0..MaxDays
MaxReinforcement == 3   \* largest reinforcementCount of a fact under evaluation
MaxAdds == 4      \* MemoryOS.addFact calls in a run of the hydrator
MaxHydrates == 1  \* hydrate calls in a run of the hydrator
MaxHydrateFacts == 1    \* largest options.maxFacts passed to hydrate
MaxClock == 1     \* the millisecond clock advances at most this often
MaxCalls == 3     \* TieredAdapter calls in a run of the tiered store
MaxColdWrites == 3      \* writes the application makes to the cold adapter itself
MaxHotLimit == 2  \* largest hotFactLimit configured
MaxTasks == 3
MaxCacheOps == 4  \* SemanticCache calls in a run of the cache
MaxPrincipalCacheOps == 3  \* SemanticCache calls in a run with two principals
MaxConsolidationOps == 3   \* writes to the adapter in a run of the consolidation worker
MaxConsolidationHours == 2 \* hours that pass in a run of the consolidation worker
MaxStoreOps == 3  \* direct calls of an adapter in a run
MaxOverlapOps == 3     \* operations proposed to the two overlapping runs together
MaxRawOps == 2    \* entries of the operations array of an LLM response
MaxFairTasks == 2     \* exchanges handed to digest / enqueue in a run of the queue

Users == {"u1"}
Subjects == {"User"}
\* strings the pipeline normalises or searches are sequences of characters
LOCATION == <<"L", "O", "C", "A", "T", "I", "O", "N">>
FOOD_ALLERGY == <<"F", "O", "O", "D", "_", "A", "L", "L", "E", "R", "G", "Y">>
WORKS_AT == <<"W", "O", "R", "K", "S", "_", "A", "T">>
Predicates == {LOCATION, FOOD_ALLERGY}
Objects == {"a", "b"}
OpKinds == {"INSERT", "UPDATE", "DELETE"}
Strategies == {"latest", "keep_both", "merge"}
\* confidence and importance are carried in tenths / as integers
Confidences == {4, 8}
Importances == {5}

(***************************************************************************)
(* Generic helpers.                                                        *)
(***************************************************************************)
Null == <<>>

\* { ...a, ...b }
Spread(a, b) ==
    [k \in (DOMAIN a) \cup (DOMAIN b) |-> IF k \in DOMAIN b THEN b[k] ELSE a[k]]

\* Array.prototype.find, as the index of the first element satisfying P (0: none)
FindIndex(s, P(_)) ==
    IF \E i \in 1..Len(s) : P(s[i])
    THEN CHOOSE i \in 1..Len(s) : P(s[i]) /\ \A j \in 1..(i - 1) : ~P(s[j])
    ELSE 0

\* Array.prototype.filter
Filter(s, P(_)) ==
    LET keep == {i \in 1..Len(s) : P(s[i])}
    IN [k \in 1..Cardinality(keep) |->
          s[CHOOSE i \in keep : Cardinality({j \in keep : j < i}) = k - 1]]

\* Array.prototype.slice(0, n): a negative n counts from the end
Slice0(s, n) ==
    LET end == IF n < 0 THEN (IF Len(s) + n > 0 THEN Len(s) + n ELSE 0)
               ELSE (IF n < Len(s) THEN n ELSE Len(s))
    IN SubSeq(s, 1, end)

Max(a, b) == IF a > b THEN a ELSE b
Min(a, b) == IF a < b THEN a ELSE b

\* String.prototype functions over sequences of characters
Whitespace == {" ", "\t"}

LowerLetters == <<"a", "b", "c", "d", "e", "f", "g", "h", "i", "j", "k", "l", "m", "n", "o", "p", "q", "r", "s", "t", "u", "v", "w", "x", "y", "z">>
UpperLetters == <<"A", "B", "C", "D", "E", "F", "G", "H", "I", "J", "K", "L", "M", "N", "O", "P", "Q", "R", "S", "T", "U", "V", "W", "X", "Y", "Z">>

\* the upper-case letter of every lower-case letter, and the converse
UpperOf ==
    [c \in {LowerLetters[i] : i \in 1..Len(LowerLetters)} |->
        UpperLetters[CHOOSE i \in 1..Len(LowerLetters) : LowerLetters[i] = c]]

LowerOf ==
    [c \in {UpperLetters[i] : i \in 1..Len(UpperLetters)} |->
        LowerLetters[CHOOSE i \in 1..Len(UpperLetters) : UpperLetters[i] = c]]

UpperChar(c) == IF c \in DOMAIN UpperOf THEN UpperOf[c] ELSE c

UpperCase(s) == [i \in 1..Len(s) |-> UpperChar(s[i])]

LowerChar(c) == IF c \in DOMAIN LowerOf THEN LowerOf[c] ELSE c

LowerCase(s) == [i \in 1..Len(s) |-> LowerChar(s[i])]

\* new Set(s.split(/\s+/).filter(Boolean)): the maximal runs without whitespace
Tokens(s) ==
    {SubSeq(s, i, j) : <<i, j>> \in
        {r \in (1..Len(s)) \X (1..Len(s)) :
            /\ r[1] <= r[2]
            /\ \A k \in r[1]..r[2] : s[k] \notin Whitespace
            /\ (r[1] = 1 \/ s[r[1] - 1] \in Whitespace)
            /\ (r[2] = Len(s) \/ s[r[2] + 1] \in Whitespace)}}

Trim(s) ==
    LET solid == {i \in 1..Len(s) : s[i] \notin Whitespace}
    IN IF solid = {} THEN <<>>
       ELSE SubSeq(s, CHOOSE i \in solid : \A j \in solid : i <= j,
                      CHOOSE i \in solid : \A j \in solid : j <= i)

\* replace(/\s+/g, "_"): the first character of every whitespace run becomes
\* an underscore, the rest of the run goes
ReplaceWhitespaceRuns(s) ==
    LET RunStart(i) == s[i] \in Whitespace /\ (i = 1 \/ s[i - 1] \notin Whitespace)
        keep == {i \in 1..Len(s) : s[i] \notin Whitespace \/ RunStart(i)}
        At(k) == CHOOSE i \in keep : Cardinality({j \in keep : j < i}) = k - 1
    IN [k \in 1..Cardinality(keep) |-> IF s[At(k)] \in Whitespace THEN "_" ELSE s[At(k)]]

Includes(s, sub) ==
    \E i \in 0..(Len(s) - Len(sub)) : SubSeq(s, i + 1, i + Len(sub)) = sub

\* all sequences over S of length at most n
SeqsUpTo(S, n) == UNION {[1..k -> S] : k \in 0..n}

(***************************************************************************)
(* InMemoryAdapter.  A user's Map<string, MemoryFact> is the sequence of   *)
(* its entries [key, fact] in insertion order.                             *)
(***************************************************************************)
MapValues(entries) == [i \in 1..Len(entries) |-> entries[i].fact]

MapHas(entries, key) == \E i \in 1..Len(entries) : entries[i].key = key

MapGet(entries, key) ==
    entries[CHOOSE i \in 1..Len(entries) : entries[i].key = key].fact

\* Map.set: replaces the value of an existing key in place, else appends
MapSet(entries, key, fact) ==
    IF MapHas(entries, key)
    THEN [i \in 1..Len(entries) |->
            IF entries[i].key = key THEN [key |-> key, fact |-> fact] ELSE entries[i]]
    ELSE Append(entries, [key |-> key, fact |-> fact])

\* Map.delete
MapDelete(entries, key) ==
    LET Keep(e) == e.key # key IN Filter(entries, Keep)

NoFilter ==
    [given |-> FALSE, subject |-> Null, predicate |-> Null, predicates |-> {},
     validOnly |-> TRUE, orderBy |-> "", orderDir |-> "", limit |-> 0]

ValidOnlyFilter == [NoFilter EXCEPT !.given = TRUE]

\* Array.prototype.sort with the comparator of getFacts: stable insertion sort
RECURSIVE InsertSorted(_, _, _, _)
InsertSorted(sorted, f, field, dir) ==
    IF sorted = <<>> THEN <<f>>
    ELSE LET h == Head(sorted)
             \* f goes before h only when the comparator puts it strictly first
             before == IF dir = "desc" THEN f[field] > h[field] ELSE f[field] < h[field]
         IN IF before THEN <<f>> \o sorted
            ELSE <<h>> \o InsertSorted(Tail(sorted), f, field, dir)

RECURSIVE SortBy(_, _, _)
SortBy(s, field, dir) ==
    IF s = <<>> THEN <<>>
    ELSE InsertSorted(SortBy(SubSeq(s, 1, Len(s) - 1), field, dir), s[Len(s)], field, dir)

GetFacts(entries, filter) ==
    LET all == MapValues(entries)
        BySubject(f) == filter.subject = Null \/ f.subject = filter.subject[1]
        ByPredicate(f) == filter.predicate = Null \/ f.predicate = filter.predicate[1]
        ByPredicates(f) == filter.predicates = {} \/ f.predicate \in filter.predicates
        ByValid(f) == filter.validOnly = FALSE \/ f.invalidatedAt = Null
        f1 == Filter(all, BySubject)
        f2 == Filter(f1, ByPredicate)
        f3 == Filter(f2, ByPredicates)
        f4 == Filter(f3, ByValid)
        f5 == IF filter.orderBy # "" THEN SortBy(f4, filter.orderBy, filter.orderDir) ELSE f4
        f6 == IF filter.limit # 0 THEN Slice0(f5, filter.limit) ELSE f5
    IN IF filter.given THEN f6 ELSE all

GetFactById(entries, factId) ==
    IF MapHas(entries, factId) THEN <<MapGet(entries, factId)>> ELSE Null

\* UpsertFact matching the whole triple instead of subject + predicate
UpsertFactByTriple(entries, fact, now, newId) ==
    LET Same(e) == /\ e.fact.subject = fact.subject
                   /\ e.fact.predicate = fact.predicate
                   /\ e.fact.object = fact.object
                   /\ e.fact.invalidatedAt = Null
        i == FindIndex(entries, Same)
    IN IF i # 0
       THEN LET existingFact == entries[i].fact
                updated == Spread(Spread(existingFact, fact), [updatedAt |-> now])
            IN [entries |-> MapSet(entries, existingFact.id, updated), saved |-> updated,
                created |-> FALSE]
       ELSE LET newFact == Spread(fact, [id |-> newId, createdAt |-> now, updatedAt |-> now])
            IN [entries |-> MapSet(entries, newId, newFact), saved |-> newFact,
                created |-> TRUE]

\* returns the new map and the fact handed back to the caller
UpsertFact(entries, fact, now, newId) ==
    LET Same(e) == /\ e.fact.subject = fact.subject
                   /\ e.fact.predicate = fact.predicate
                   /\ e.fact.invalidatedAt = Null
        i == FindIndex(entries, Same)
    IN IF i # 0
       THEN LET existingFact == entries[i].fact
                updated == Spread(Spread(existingFact, fact), [updatedAt |-> now])
            IN [entries |-> MapSet(entries, existingFact.id, updated), saved |-> updated,
                created |-> FALSE]
       ELSE LET newFact == Spread(fact, [id |-> newId, createdAt |-> now, updatedAt |-> now])
            IN [entries |-> MapSet(entries, newId, newFact), saved |-> newFact,
                created |-> TRUE]

UpdateFact(entries, factId, updates, now) ==
    IF ~MapHas(entries, factId)
    THEN [ok |-> FALSE, entries |-> entries, saved |-> Null]
    ELSE LET fact == MapGet(entries, factId)
             updated == Spread(Spread(fact, updates), [id |-> fact.id, updatedAt |-> now])
         IN [ok |-> TRUE, entries |-> MapSet(entries, factId, updated), saved |-> updated]

DeleteFact(entries, factId, now) ==
    IF MapHas(entries, factId)
    THEN MapSet(entries, factId, Spread(MapGet(entries, factId), [invalidatedAt |-> <<now>>]))
    ELSE entries

HardDeleteFact(entries, factId) == MapDelete(entries, factId)

(***************************************************************************)
(* ConflictResolver.resolve, after its getFacts returned existing.         *)
(***************************************************************************)
ReplaceReason(op) == <<"Replaced by new value: ", op.object>>
MergeReason(op) == <<"Merged with new value: ", op.object>>

ImplicitDelete(existingFact, reason) ==
    [op |-> "DELETE", subject |-> existingFact.subject,
     predicate |-> existingFact.predicate, object |-> existingFact.object,
     reason |-> reason]

\* ResolveOne pushing the new operation before the implicit DELETE
ResolveOneInsertFirst(strat, op, existing) ==
    LET Same(f) == f.subject = op.subject /\ f.predicate = op.predicate
        i == FindIndex(existing, Same)
    IN IF op.op = "DELETE" THEN [ops |-> <<op>>, conflicts |-> <<>>]
       ELSE IF i = 0 THEN [ops |-> <<op>>, conflicts |-> <<>>]
       ELSE IF existing[i].object = op.object THEN [ops |-> <<>>, conflicts |-> <<>>]
       ELSE IF strat = "keep_both"
            THEN [ops |-> <<op>>,
                  conflicts |-> <<[existingFact |-> existing[i], newOperation |-> op,
                                   resolution |-> "keep_both"]>>]
       ELSE [ops |-> <<op, ImplicitDelete(existing[i], ReplaceReason(op))>>,
             conflicts |-> <<[existingFact |-> existing[i], newOperation |-> op,
                              resolution |-> IF strat = "latest" THEN "replace" ELSE "merge"]>>]

\* ResolveOne without the same-value check
ResolveOneNoSkip(strat, op, existing) ==
    LET Same(f) == f.subject = op.subject /\ f.predicate = op.predicate
        i == FindIndex(existing, Same)
    IN IF op.op = "DELETE" \/ i = 0 \/ existing[i].object = op.object
       THEN [ops |-> <<op>>, conflicts |-> <<>>]
       ELSE IF strat = "keep_both"
            THEN [ops |-> <<op>>,
                  conflicts |-> <<[existingFact |-> existing[i], newOperation |-> op,
                                   resolution |-> "keep_both"]>>]
       ELSE [ops |-> <<ImplicitDelete(existing[i], ReplaceReason(op)), op>>,
             conflicts |-> <<[existingFact |-> existing[i], newOperation |-> op,
                              resolution |-> IF strat = "latest" THEN "replace" ELSE "merge"]>>]

\* what one operation appends to resolvedOperations and to conflicts
ResolveOne(strat, op, existing) ==
    LET Same(f) == f.subject = op.subject /\ f.predicate = op.predicate
        i == FindIndex(existing, Same)
    IN IF op.op = "DELETE" THEN [ops |-> <<op>>, conflicts |-> <<>>]
       ELSE IF i = 0 THEN [ops |-> <<op>>, conflicts |-> <<>>]
       ELSE IF existing[i].object = op.object THEN [ops |-> <<>>, conflicts |-> <<>>]
       ELSE IF strat = "latest"
            THEN [ops |-> <<ImplicitDelete(existing[i], ReplaceReason(op)), op>>,
                  conflicts |-> <<[existingFact |-> existing[i], newOperation |-> op,
                                   resolution |-> "replace"]>>]
       ELSE IF strat = "keep_both"
            THEN [ops |-> <<op>>,
                  conflicts |-> <<[existingFact |-> existing[i], newOperation |-> op,
                                   resolution |-> "keep_both"]>>]
       ELSE [ops |-> <<ImplicitDelete(existing[i], MergeReason(op)), op>>,
             conflicts |-> <<[existingFact |-> existing[i], newOperation |-> op,
                              resolution |-> "merge"]>>]

RECURSIVE ResolveLoop(_, _, _)
ResolveLoop(strat, operations, existing) ==
    IF operations = <<>> THEN [ops |-> <<>>, conflicts |-> <<>>]
    ELSE LET one == ResolveOne(strat, Head(operations), existing)
             rest == ResolveLoop(strat, Tail(operations), existing)
         IN [ops |-> one.ops \o rest.ops, conflicts |-> one.conflicts \o rest.conflicts]

(***************************************************************************)
(* ExtractorWorker.                                                        *)
(***************************************************************************)
MinConfidence == 5              \* minConfidence default 0.5, in tenths
CriticalImportance == 9

SafetyPredicates ==
    <<<<"H", "A", "S", "_", "A", "L", "L", "E", "R", "G", "Y">>,
      <<"A", "L", "L", "E", "R", "G", "Y">>,
      <<"A", "L", "L", "E", "R", "G", "I", "C", "_", "T", "O">>,
      <<"M", "E", "D", "I", "C", "A", "L", "_", "C", "O", "N", "D", "I", "T", "I", "O", "N">>,
      <<"M", "E", "D", "I", "C", "A", "L">>,
      <<"D", "I", "S", "A", "B", "I", "L", "I", "T", "Y">>,
      <<"D", "O", "_", "N", "O", "T">>,
      <<"N", "E", "V", "E", "R">>,
      <<"B", "O", "U", "N", "D", "A", "R", "Y">>,
      <<"E", "M", "E", "R", "G", "E", "N", "C", "Y", "_", "C", "O", "N", "T", "A", "C", "T">>,
      <<"B", "L", "O", "O", "D", "_", "T", "Y", "P", "E">>>>

\* getEffectiveImportance that never escalates
GetEffectiveImportanceProvided(op) == op.importance

GetEffectiveImportance(op) ==
    LET providedImportance == op.importance
        upperPredicate == UpperCase(op.predicate)
        isSafetyCritical == \E i \in 1..Len(SafetyPredicates) :
                                Includes(upperPredicate, SafetyPredicates[i])
    IN IF isSafetyCritical /\ providedImportance < CriticalImportance
       THEN CriticalImportance
       ELSE providedImportance

\* the validated operations the extraction collaborator can propose
ValidatedOps ==
    [op : OpKinds, subject : Subjects, predicate : Predicates, object : Objects,
     confidence : Confidences, importance : Importances, reason : {Null}]

FilterConfident(operations) ==
    LET Confident(op) == op.confidence >= MinConfidence IN Filter(operations, Confident)

(***************************************************************************)
(* The LLM response after JSON.parse.  A value carries its typeof; an      *)
(* entry of the operations array is an object with its own properties, or  *)
(* something that is not an object.                                        *)
(***************************************************************************)
DefaultConfidence == 8          \* 0.8, in tenths
DefaultImportance == 5

Str(cs) == [type |-> "string", chars |-> cs, num |-> 0]
Num(n) == [type |-> "number", chars |-> <<>>, num |-> n]
Undefined == [type |-> "undefined", chars |-> <<>>, num |-> 0]
OpName(t) == [type |-> "string", text |-> t]
NotAString == [type |-> "number", text |-> ""]

GoodOperation ==
    [isObject |-> TRUE, op |-> OpName("INSERT"),
     subject |-> Str(<<" ", "U", "s", "e", "r", " ">>),
     predicate |-> Str(<<"f", "o", "o", "d", " ", "a", "l", "l", "e", "r", "g", "y">>),
     object |-> Str(<<"a">>),
     confidence |-> Num(8), importance |-> Num(3)]

RawOperations ==
    {GoodOperation, [GoodOperation EXCEPT !.isObject = FALSE]}
    \cup {[GoodOperation EXCEPT !.op = o] :
            o \in {OpName("DELETE"), OpName("MERGE"), NotAString}}
    \cup {[GoodOperation EXCEPT !.subject = Str(<<" ", " ">>)],
          [GoodOperation EXCEPT !.object = Undefined]}
    \cup {[GoodOperation EXCEPT !.predicate = v] :
            v \in {Str(<<" ", "w", "o", "r", "k", "s", " ", " ", "a", "t", " ">>), Str(<<"\t">>), Num(7)}}
    \cup {[GoodOperation EXCEPT !.confidence = v] : v \in {Num(4), Num(15), Undefined}}
    \cup {[GoodOperation EXCEPT !.importance = Num(10)]}
    \cup {[GoodOperation EXCEPT !.op = OpName("UPDATE"), !.importance = v,
                                !.predicate = Str(<<"w", "o", "r", "k", "s", " ", "a", "t">>)] :
            v \in {Num(0), Num(40), Undefined}}

NoOperations == [isArray |-> FALSE, items |-> <<>>]
NoRaw == [kind |-> "none", operations |-> NoOperations]

\* "unparsable": JSON.parse throws
RawResults ==
    {[kind |-> k, operations |-> NoOperations] : k \in {"unparsable", "null", "string", "object"}}
    \cup {[kind |-> "object", operations |-> [isArray |-> TRUE, items |-> b]] :
            b \in SeqsUpTo(RawOperations, MaxRawOps)}

IsValidOperation(operation) ==
    /\ operation.isObject
    /\ operation.op.type = "string" /\ operation.op.text \in {"INSERT", "UPDATE", "DELETE"}
    /\ operation.subject.type = "string" /\ Trim(operation.subject.chars) # <<>>
    /\ operation.predicate.type = "string" /\ Trim(operation.predicate.chars) # <<>>
    /\ operation.object.type = "string" /\ Trim(operation.object.chars) # <<>>

\* the pushed operation without trimming, normalising or clamping
SanitizeOperationAsIs(operation) ==
    [op |-> operation.op.text,
     subject |-> operation.subject.chars,
     predicate |-> operation.predicate.chars,
     object |-> operation.object.chars,
     reason |-> Null,
     confidence |-> operation.confidence.num,
     importance |-> operation.importance.num]

SanitizeOperation(operation) ==
    [op |-> operation.op.text,
     subject |-> Trim(operation.subject.chars),
     predicate |-> ReplaceWhitespaceRuns(UpperCase(Trim(operation.predicate.chars))),
     object |-> Trim(operation.object.chars),
     reason |-> Null,
     confidence |-> IF operation.confidence.type = "number"
                    THEN Max(0, Min(10, operation.confidence.num))
                    ELSE DefaultConfidence,
     importance |-> IF operation.importance.type = "number"
                    THEN Max(1, Min(10, operation.importance.num))
                    ELSE DefaultImportance]

ValidateExtractionResult(raw) ==
    IF raw.kind # "object" THEN <<>>
    ELSE IF ~raw.operations.isArray THEN <<>>
    ELSE LET valid == Filter(raw.operations.items, IsValidOperation)
         IN [i \in 1..Len(valid) |-> SanitizeOperation(valid[i])]

NoTask == [userId |-> "", sessionId |-> ""]

InitPipeline ==
    /\ rawResult = NoRaw
    /\ mem = [u \in Users |-> <<>>]
    /\ pc = "idle"
    /\ task = NoTask
    /\ confident = <<>>
    /\ existingFacts = <<>>
    /\ resolved = <<>>
    /\ conflicts = <<>>
    /\ idx = 0
    /\ matching = Null
    /\ opsLeft = MaxOps

\* processTask is entered (from the queue loop or extractNow) and reads the
\* user's current facts for the prompt
ProcessTaskStart(u) ==
    /\ pc = "idle"
    /\ pc' = "llm"
    /\ task' = [userId |-> u, sessionId |-> "s1"]
    /\ confident' = <<>>
    /\ existingFacts' = <<>>
    /\ resolved' = <<>>
    /\ conflicts' = <<>>
    /\ idx' = 0
    /\ UNCHANGED <<rawResult, strategy, mem, matching, opsLeft, clock, decayVars, hydrateVars, tieredVars, queueVars, cacheVars, consVars, storeVars, overlapVars>>

\* provider.complete returns; the response is parsed, validated and filtered by
\* confidence.  No confident operation: processTask returns at once.
LLMComplete(operations) ==
    /\ pc = "llm"
    /\ Len(operations) <= opsLeft
    /\ opsLeft' = opsLeft - Len(operations)
    /\ confident' = FilterConfident(operations)
    /\ pc' = IF confident' = <<>> THEN "done" ELSE "resolve"
    /\ UNCHANGED <<strategy, mem, task, existingFacts, resolved, conflicts, idx,
                   matching, clock, decayVars, hydrateVars, tieredVars, queueVars, cacheVars, consVars, storeVars, overlapVars>>

\* the response held operations that were valid already
LLMCompleteValid(operations) ==
    /\ LLMComplete(operations)
    /\ UNCHANGED rawResult

\* provider.complete returns content that parses to raw (or does not parse)
LLMCompleteRaw(raw) ==
    /\ rawResult' = raw
    /\ LLMComplete(ValidateExtractionResult(raw))

\* resolve: adapter.getFacts(userId, { validOnly: true }) returns
ResolveGetFacts ==
    /\ pc = "resolve"
    /\ existingFacts' = GetFacts(mem[task.userId], ValidOnlyFilter)
    /\ pc' = "resolving"
    /\ UNCHANGED <<rawResult, strategy, mem, task, confident, resolved, conflicts, idx, matching,
                   opsLeft, clock, decayVars, hydrateVars, tieredVars, queueVars, cacheVars, consVars, storeVars, overlapVars>>

\* resolve: the loop over the operations; applyOperations is entered
ResolveOps ==
    /\ pc = "resolving"
    /\ LET r == ResolveLoop(strategy, confident, existingFacts)
       IN /\ resolved' = r.ops
          /\ conflicts' = r.conflicts
    /\ idx' = 1
    /\ pc' = "apply"
    /\ UNCHANGED <<rawResult, strategy, mem, task, confident, existingFacts, matching, opsLeft, clock, decayVars, hydrateVars, tieredVars, queueVars, cacheVars, consVars, storeVars, overlapVars>>

NewId(entries) == Len(entries) + 1

PipelineFact(op, sessionId) ==
    [subject |-> op.subject, predicate |-> op.predicate, object |-> op.object,
     confidence |-> op.confidence, importance |-> GetEffectiveImportance(op),
     memoryStage |-> "short-term", source |-> sessionId, invalidatedAt |-> Null]

\* applyOperations, DELETE: getFacts returns and the matching fact is looked up
ApplyDeleteFind ==
    /\ pc = "apply" /\ idx <= Len(resolved)
    /\ resolved[idx].op = "DELETE"
    /\ LET op == resolved[idx]
           facts == GetFacts(mem[task.userId],
                             [ValidOnlyFilter EXCEPT !.subject = <<op.subject>>,
                                                     !.predicate = <<op.predicate>>])
           Match(f) == f.object = op.object
           i == FindIndex(facts, Match)
       IN IF i # 0
          THEN /\ matching' = <<facts[i].id>>
               /\ pc' = "delete"
               /\ idx' = idx
          ELSE /\ matching' = Null
               /\ pc' = "apply"
               /\ idx' = idx + 1
    /\ UNCHANGED <<rawResult, strategy, mem, task, confident, existingFacts, resolved, conflicts,
                   opsLeft, clock, decayVars, hydrateVars, tieredVars, queueVars, cacheVars, consVars, storeVars, overlapVars>>

\* applyOperations, DELETE: adapter.deleteFact returns
ApplyDeleteFact ==
    /\ pc = "delete"
    /\ mem' = [mem EXCEPT ![task.userId] = DeleteFact(@, matching[1], clock)]
    /\ matching' = Null
    /\ idx' = idx + 1
    /\ pc' = "apply"
    /\ UNCHANGED <<rawResult, strategy, task, confident, existingFacts, resolved, conflicts,
                   opsLeft, clock, decayVars, hydrateVars, tieredVars, queueVars, cacheVars, consVars, storeVars, overlapVars>>

\* applyOperations, INSERT or UPDATE: adapter.upsertFact returns
ApplyUpsert ==
    /\ pc = "apply" /\ idx <= Len(resolved)
    /\ resolved[idx].op # "DELETE"
    /\ LET entries == mem[task.userId]
           r == UpsertFact(entries, PipelineFact(resolved[idx], task.sessionId),
                           clock, NewId(entries))
       IN mem' = [mem EXCEPT ![task.userId] = r.entries]
    /\ idx' = idx + 1
    /\ UNCHANGED <<rawResult, strategy, pc, task, confident, existingFacts, resolved, conflicts,
                   matching, opsLeft, clock, decayVars, hydrateVars, tieredVars, queueVars, cacheVars, consVars, storeVars, overlapVars>>

\* applyOperations' loop ends and processTask returns the resolved operations
ApplyDone ==
    /\ pc = "apply" /\ idx > Len(resolved)
    /\ pc' = "done"
    /\ UNCHANGED <<rawResult, strategy, mem, task, confident, existingFacts, resolved, conflicts,
                   idx, matching, opsLeft, clock, decayVars, hydrateVars, tieredVars, queueVars, cacheVars, consVars, storeVars, overlapVars>>

\* the caller of processTask takes the result
ProcessTaskReturn ==
    /\ pc = "done"
    /\ pc' = "idle"
    /\ task' = NoTask
    /\ confident' = <<>>
    /\ existingFacts' = <<>>
    /\ resolved' = <<>>
    /\ conflicts' = <<>>
    /\ idx' = 0
    /\ UNCHANGED <<rawResult, strategy, mem, matching, opsLeft, clock, decayVars, hydrateVars, tieredVars, queueVars, cacheVars, consVars, storeVars, overlapVars>>

NextPipeline ==
    \/ \E u \in Users : ProcessTaskStart(u)
    \/ \E operations \in SeqsUpTo(ValidatedOps, opsLeft) : LLMCompleteValid(operations)
    \/ ResolveGetFacts
    \/ ResolveOps
    \/ ApplyDeleteFind
    \/ ApplyDeleteFact
    \/ ApplyUpsert
    \/ ApplyDone
    \/ ProcessTaskReturn

\* one processTask over a store that is empty or holds one earlier fact
ValidateStores ==
    {<<>>, UpsertFact(<<>>, PipelineFact(SanitizeOperation(GoodOperation), "s0"), 0, 1).entries}

NextValidate ==
    \/ \E u \in Users : ProcessTaskStart(u)
    \/ \E raw \in RawResults : LLMCompleteRaw(raw)
    \/ ResolveGetFacts
    \/ ResolveOps
    \/ ApplyDeleteFind
    \/ ApplyDeleteFact
    \/ ApplyUpsert
    \/ ApplyDone

(***************************************************************************)
(* DecayManager.  Times are in hours; a weight is the fraction num/den.    *)
(***************************************************************************)
HoursPerDay == 24
ReinforcementThreshold == 3

DefaultPermanentPredicates == {"NAME", "ALLERGY"}
DefaultEphemeralPredicates == {"WEARING", "CURRENT_MOOD"}

DecayPredicates == {"NAME", "WEARING", "wearing", "LOCATION", "FOOD_ALLERGY"}

\* String.prototype.toUpperCase on the predicates of the model
ToUpperCase(p) == IF p = "wearing" THEN "WEARING" ELSE p

DecayTimes == {0, 1, 2} \cup {HoursPerDay * d + k : d \in 1..MaxDays, k \in {0, 1}}

\* the constructor: defaults merged with the caller's config
DecayConfig(enabled, extraPermanent) ==
    [enabled |-> enabled,
     defaultTtlDays |-> 2,
     lowWeightTtlDays |-> 1,
     permanentPredicates |-> DefaultPermanentPredicates \cup extraPermanent,
     ephemeralPredicates |-> DefaultEphemeralPredicates,
     ephemeralTtlHours |-> 1,
     reinforcementThreshold |-> ReinforcementThreshold]

One == [num |-> 1, den |-> 1]


LastReinforced(fact) ==
    IF fact.lastReinforcedAt # Null THEN fact.lastReinforcedAt[1] ELSE fact.createdAt

TtlDays(cfg, fact) ==
    IF fact.confidence < 5 THEN cfg.lowWeightTtlDays ELSE cfg.defaultTtlDays

\* an age counted from now back to the future
AgeMsReversed(fact, now) == LastReinforced(fact) - now

AgeMs(fact, now) == now - LastReinforced(fact)

CalculateDecayWeight(cfg, fact, now) ==
    LET predicateUpper == ToUpperCase(fact.predicate)
        reinforcements == fact.reinforcementCount
        ageMs == AgeMs(fact, now)
    IN IF ~cfg.enabled THEN One
       ELSE IF predicateUpper \in cfg.permanentPredicates THEN One
       ELSE IF reinforcements >= cfg.reinforcementThreshold THEN One
       ELSE IF predicateUpper \in cfg.ephemeralPredicates
            THEN LET ttlMs == cfg.ephemeralTtlHours
                 IN [num |-> Max(0, ttlMs - ageMs), den |-> ttlMs]
       ELSE LET ttlMs == TtlDays(cfg, fact) * HoursPerDay
                \* weight = max(0, 1 - age/ttl) and boost = min(0.5, r * 0.1), over 10 * ttl
                weight == Max(0, 10 * (ttlMs - ageMs))
                reinforcementBoost == Min(5, reinforcements) * ttlMs
            IN [num |-> Min(10 * ttlMs, weight + reinforcementBoost), den |-> 10 * ttlMs]

\* calculateExpiryDate without the reinforcement check
CalculateExpiryDateUnreinforced(cfg, fact) ==
    LET predicateUpper == ToUpperCase(fact.predicate)
    IN IF ~cfg.enabled THEN Null
       ELSE IF predicateUpper \in cfg.permanentPredicates THEN Null
       ELSE IF predicateUpper \in cfg.ephemeralPredicates
            THEN <<LastReinforced(fact) + cfg.ephemeralTtlHours>>
       ELSE <<LastReinforced(fact) + TtlDays(cfg, fact) * HoursPerDay>>

CalculateExpiryDate(cfg, fact) ==
    LET predicateUpper == ToUpperCase(fact.predicate)
    IN IF ~cfg.enabled THEN Null
       ELSE IF predicateUpper \in cfg.permanentPredicates THEN Null
       ELSE IF fact.reinforcementCount >= cfg.reinforcementThreshold THEN Null
       ELSE IF predicateUpper \in cfg.ephemeralPredicates
            THEN <<LastReinforced(fact) + cfg.ephemeralTtlHours>>
       ELSE <<LastReinforced(fact) + TtlDays(cfg, fact) * HoursPerDay>>

ShouldPrune(cfg, fact, now) ==
    LET weight == CalculateDecayWeight(cfg, fact, now)
        expiresAt == CalculateExpiryDate(cfg, fact)
    IN IF ~cfg.enabled THEN FALSE
       ELSE IF weight.num <= 0 THEN TRUE
       ELSE IF expiresAt # Null /\ expiresAt[1] < now THEN TRUE
       ELSE FALSE

DecayFacts ==
    [predicate : DecayPredicates, confidence : Confidences, importance : {5, 9},
     reinforcementCount : 0..MaxReinforcement, createdAt : DecayTimes,
     lastReinforcedAt : {Null} \cup {<<t>> : t \in DecayTimes}]

NoDecay ==
    /\ dCfg = DecayConfig(TRUE, {})
    /\ dFact = Null
    /\ dNow = 0
    /\ dOut = Null

\* a DecayManager is constructed and handed a fact
InitDecay ==
    /\ dCfg \in {DecayConfig(en, extra) : en \in BOOLEAN, extra \in {{}, {"WEARING"}}}
    /\ dFact \in {f \in DecayFacts :
                    f.lastReinforcedAt # Null => f.lastReinforcedAt[1] >= f.createdAt}
    /\ dNow \in DecayTimes
    /\ dOut = Null

\* calculateDecayWeight, calculateExpiryDate and shouldPrune are called
DecayEvaluate ==
    /\ dOut = Null
    /\ dOut' = <<[weight |-> CalculateDecayWeight(dCfg, dFact, dNow),
                  expiresAt |-> CalculateExpiryDate(dCfg, dFact),
                  prune |-> ShouldPrune(dCfg, dFact, dNow)]>>
    /\ UNCHANGED <<dCfg, dFact, dNow, clock, pipeVars, hydrateVars, tieredVars, queueVars, cacheVars, consVars, storeVars, overlapVars>>

\* time passes
DecayTick ==
    /\ \E t \in DecayTimes :
          /\ t > dNow
          /\ \A t2 \in DecayTimes : t2 > dNow => t <= t2
          /\ dNow' = t
    /\ dOut' = Null
    /\ UNCHANGED <<dCfg, dFact, clock, pipeVars, hydrateVars, tieredVars, queueVars, cacheVars, consVars, storeVars, overlapVars>>

NextDecay == DecayEvaluate \/ DecayTick

(***************************************************************************)
(* ContextHydrator over an InMemoryAdapter, fed by MemoryOS.addFact.       *)
(***************************************************************************)
HydratePredicates == {"LOCATION", "FOOD_ALLERGY", "NAME", "WEARING"}
\* (confidence, importance) of the facts added
HydrateQualities == {<<8, 9>>, <<8, 5>>, <<4, 5>>}

NoHydrate ==
    /\ hydrated = Null
    /\ accessPending = <<>>
    /\ hBudget = [adds |-> 0, hydrates |-> 0]

InitHydrate ==
    /\ hydrated = Null
    /\ accessPending = <<>>
    /\ hBudget = [adds |-> MaxAdds, hydrates |-> MaxHydrates]

\* the millisecond clock advances
Tick ==
    /\ clock < MaxClock
    /\ clock' = clock + 1
    /\ UNCHANGED <<pipeVars, decayVars, hydrateVars, tieredVars, queueVars, cacheVars, consVars, storeVars, overlapVars>>

\* MemoryOS.addFact
AddFact(u, subject, predicate, object, confidence, importance) ==
    /\ hBudget.adds > 0
    /\ hydrated = Null
    /\ hBudget' = [hBudget EXCEPT !.adds = @ - 1]
    /\ LET entries == mem[u]
           r == UpsertFact(entries,
                           [subject |-> subject, predicate |-> predicate, object |-> object,
                            confidence |-> confidence, importance |-> importance,
                            source |-> "s1", invalidatedAt |-> Null],
                           clock, NewId(entries))
       IN mem' = [mem EXCEPT ![u] = r.entries]
    /\ UNCHANGED <<rawResult, clock, strategy, pc, task, confident, existingFacts, resolved, conflicts,
                   idx, matching, opsLeft, decayVars, hydrated, accessPending, tieredVars, queueVars, cacheVars, consVars, storeVars, overlapVars>>

HydrateFilter(maxFacts) ==
    [ValidOnlyFilter EXCEPT !.limit = maxFacts * 3, !.orderBy = "updatedAt",
                            !.orderDir = "desc"]

AccessCount(f) == IF "accessCount" \in DOMAIN f THEN f.accessCount ELSE 0

\* HydratedContext.facts, from what getFacts returned
HydrateFacts(allFacts, maxFacts) ==
    LET Critical(f) == f.importance >= CriticalImportance
        criticalFacts == Filter(allFacts, Critical)
        criticalIds == {criticalFacts[i].id : i \in 1..Len(criticalFacts)}
        NotCritical(f) == f.id \notin criticalIds
        Confident(f) == f.confidence >= MinConfidence
        regularFacts == Slice0(Filter(Filter(allFacts, NotCritical), Confident),
                               maxFacts - Len(criticalFacts))
    IN criticalFacts \o regularFacts

\* hydrate(userId, message, { maxFacts }); recordAccess is started and left
\* running
Hydrate(u, maxFacts) ==
    /\ hBudget.hydrates > 0
    /\ hydrated = Null
    /\ hBudget' = [hBudget EXCEPT !.hydrates = @ - 1]
    /\ LET facts == HydrateFacts(GetFacts(mem[u], HydrateFilter(maxFacts)), maxFacts)
       IN /\ hydrated' = <<[userId |-> u, facts |-> facts]>>
          /\ accessPending' = accessPending \o
                [i \in 1..Len(facts) |->
                    [userId |-> u, id |-> facts[i].id,
                     accessCount |-> AccessCount(facts[i]) + 1, lastAccessedAt |-> clock]]
    /\ UNCHANGED <<clock, pipeVars, decayVars, tieredVars, queueVars, cacheVars, consVars, storeVars, overlapVars>>

\* recordAccess: one updateFact returns (a failure is swallowed)
RecordAccessStep ==
    /\ accessPending # <<>>
    /\ LET a == Head(accessPending)
           r == UpdateFact(mem[a.userId], a.id,
                           [accessCount |-> a.accessCount, lastAccessedAt |-> a.lastAccessedAt],
                           clock)
       IN mem' = [mem EXCEPT ![a.userId] = r.entries]
    /\ accessPending' = Tail(accessPending)
    /\ UNCHANGED <<rawResult, clock, strategy, pc, task, confident, existingFacts, resolved, conflicts,
                   idx, matching, opsLeft, decayVars, hydrated, hBudget, tieredVars, queueVars, cacheVars, consVars, storeVars, overlapVars>>

\* the caller of hydrate takes the context
HydrateReturn ==
    /\ hydrated # Null
    /\ hydrated' = Null
    /\ UNCHANGED <<clock, pipeVars, decayVars, accessPending, hBudget, tieredVars, queueVars, cacheVars, consVars, storeVars, overlapVars>>

NextHydrate ==
    \/ Tick
    \/ \E u \in Users, s \in Subjects, p \in HydratePredicates, o \in {"a"},
          q \in HydrateQualities : AddFact(u, s, p, o, q[1], q[2])
    \/ \E u \in Users, maxFacts \in 1..MaxHydrateFacts : Hydrate(u, maxFacts)
    \/ RecordAccessStep
    \/ HydrateReturn

(***************************************************************************)
(* TieredAdapter over two InMemoryAdapters (hot, cold).  uuidv4() hands    *)
(* out nextId, nextId + 1, ...: an id is never used twice, in either tier. *)
(***************************************************************************)
DefaultHotFactLimit == 50
TieredPredicates == {"NAME", "LOCATION", "DIET"}
TieredFact(subject, predicate, object) ==
    [subject |-> subject, predicate |-> predicate, object |-> object,
     confidence |-> 9, source |-> "test", invalidatedAt |-> Null]

\* the FactFilter values passed to getFacts
TieredFilters ==
    {NoFilter, ValidOnlyFilter,
     [ValidOnlyFilter EXCEPT !.predicate = <<"NAME">>],
     [ValidOnlyFilter EXCEPT !.validOnly = FALSE, !.orderBy = "updatedAt",
                             !.orderDir = "desc"]}

TieredConfigs ==
    [hotFactLimit : 1..MaxHotLimit, autoPromote : BOOLEAN, autoDemote : BOOLEAN]

NoResult ==
    [call |-> "", userId |-> "", coldOk |-> TRUE, hotOk |-> TRUE, ok |-> TRUE,
     error |-> "", filter |-> NoFilter, facts |-> <<>>]

NoTiered ==
    /\ hot = [u \in Users |-> <<>>]
    /\ cold = [u \in Users |-> <<>>]
    /\ tConfig = [hotFactLimit |-> DefaultHotFactLimit, autoPromote |-> TRUE,
                  autoDemote |-> TRUE]
    /\ nextId = 1
    /\ tCalls = [calls |-> 0, writes |-> 0]
    /\ tResult = NoResult

InitTiered ==
    /\ hot = [u \in Users |-> <<>>]
    /\ cold = [u \in Users |-> <<>>]
    /\ tConfig \in TieredConfigs
    /\ nextId = 1
    /\ tCalls = [calls |-> MaxCalls, writes |-> MaxColdWrites]
    /\ tResult = NoResult

\* autoPromote and autoDemote left at their defaults
InitTieredDefaults ==
    /\ hot = [u \in Users |-> <<>>]
    /\ cold = [u \in Users |-> <<>>]
    /\ tConfig \in {cfg \in TieredConfigs : cfg.autoPromote /\ cfg.autoDemote}
    /\ nextId = 1
    /\ tCalls = [calls |-> MaxCalls, writes |-> 0]
    /\ tResult = NoResult

\* promoteFactsToHot: the i-th upsert draws id base + i - 1
RECURSIVE PromoteFactsToHot(_, _, _, _)
PromoteFactsToHot(h, facts, now, base) ==
    IF facts = <<>> THEN h
    ELSE PromoteFactsToHot(UpsertFact(h, Head(facts), now, base).entries, Tail(facts),
                           now, base + 1)

RECURSIVE HardDeleteAll(_, _)
HardDeleteAll(h, toRemove) ==
    IF toRemove = <<>> THEN h
    ELSE HardDeleteAll(HardDeleteFact(h, Head(toRemove).id), Tail(toRemove))

\* demoteOldFacts
DemoteOldFacts(h, hotFactLimit) ==
    LET hotFacts == GetFacts(h, ValidOnlyFilter)
    IN IF Len(hotFacts) > hotFactLimit
       THEN HardDeleteAll(h, Slice0(SortBy(hotFacts, "updatedAt", "asc"),
                                    Len(hotFacts) - hotFactLimit))
       ELSE h

Outcome(h, c, ok, error, facts, ids) ==
    [hot |-> h, cold |-> c, ok |-> ok, error |-> error, facts |-> facts, ids |-> ids]

\* upsertFact writing the hot store before the cold store
TieredUpsertHotFirst(h, c, cfg, fact, now, base, coldOk, hotOk) ==
    IF ~hotOk THEN Outcome(h, c, FALSE, "hot", <<>>, 0)
    ELSE LET hr == UpsertFact(h, fact, now, base + 1)
             h2 == IF cfg.autoDemote THEN DemoteOldFacts(hr.entries, cfg.hotFactLimit)
                   ELSE hr.entries
         IN IF ~coldOk THEN Outcome(h2, c, FALSE, "cold", <<>>, 2)
            ELSE LET cr == UpsertFact(c, fact, now, base)
                 IN Outcome(h2, cr.entries, TRUE, "", <<cr.saved>>, 2)

\* upsertFact whose demotion evicts from both stores
TieredUpsertDemoteBoth(h, c, cfg, fact, now, base, coldOk, hotOk) ==
    IF ~coldOk THEN Outcome(h, c, FALSE, "cold", <<>>, 0)
    ELSE LET cr == UpsertFact(c, fact, now, base)
         IN IF ~hotOk THEN Outcome(h, cr.entries, FALSE, "hot", <<>>, 1)
            ELSE LET hr == UpsertFact(h, cr.saved, now, base + 1)
                 IN Outcome(DemoteOldFacts(hr.entries, cfg.hotFactLimit),
                            DemoteOldFacts(cr.entries, cfg.hotFactLimit),
                            TRUE, "", <<cr.saved>>, 2)

\* upsertFact: cold, then hot, then demoteOldFacts; a rejection of either
\* store is not caught
TieredUpsert(h, c, cfg, fact, now, base, coldOk, hotOk) ==
    IF ~coldOk THEN Outcome(h, c, FALSE, "cold", <<>>, 0)
    ELSE LET cr == UpsertFact(c, fact, now, base)
         IN IF ~hotOk THEN Outcome(h, cr.entries, FALSE, "hot", <<>>, 1)
            ELSE LET hr == UpsertFact(h, cr.saved, now, base + 1)
                     h2 == IF cfg.autoDemote
                           THEN DemoteOldFacts(hr.entries, cfg.hotFactLimit)
                           ELSE hr.entries
                 IN Outcome(h2, cr.entries, TRUE, "", <<cr.saved>>, 2)

\* updateFact: cold first; whatever hot throws is caught
TieredUpdate(h, c, factId, updates, now, coldOk, hotOk) ==
    IF ~coldOk THEN Outcome(h, c, FALSE, "cold", <<>>, 0)
    ELSE LET cu == UpdateFact(c, factId, updates, now)
         IN IF ~cu.ok THEN Outcome(h, c, FALSE, "Fact not found", <<>>, 0)
            ELSE LET hu == UpdateFact(h, factId, updates, now)
                 IN Outcome(IF hotOk /\ hu.ok THEN hu.entries ELSE h, cu.entries,
                            TRUE, "", <<cu.saved>>, 0)

\* deleteFact: Promise.all starts both deletions; hot's rejection is caught
TieredDelete(h, c, factId, now, coldOk, hotOk) ==
    Outcome(IF hotOk THEN DeleteFact(h, factId, now) ELSE h,
            IF coldOk THEN DeleteFact(c, factId, now) ELSE c,
            coldOk, IF coldOk THEN "" ELSE "cold", <<>>, 0)

\* getFacts reading the cold store even when hot has an answer
TieredGetColdAlways(h, c, cfg, filter, now, base, coldOk, hotOk) ==
    IF ~hotOk THEN Outcome(h, c, FALSE, "hot", <<>>, 0)
    ELSE IF ~coldOk THEN Outcome(h, c, FALSE, "cold", <<>>, 0)
    ELSE Outcome(h, c, TRUE, "", GetFacts(c, filter), 0)

\* getFacts
TieredGet(h, c, cfg, filter, now, base, coldOk, hotOk) ==
    IF ~hotOk THEN Outcome(h, c, FALSE, "hot", <<>>, 0)
    ELSE LET hotFacts == GetFacts(h, filter)
         IN IF hotFacts # <<>> THEN Outcome(h, c, TRUE, "", hotFacts, 0)
            ELSE IF ~coldOk THEN Outcome(h, c, FALSE, "cold", <<>>, 0)
            ELSE LET facts == GetFacts(c, filter)
                     promote == Slice0(facts, cfg.hotFactLimit)
                 IN IF cfg.autoPromote /\ facts # <<>>
                    THEN Outcome(PromoteFactsToHot(h, promote, now, base), c, TRUE, "",
                                 facts, Len(promote))
                    ELSE Outcome(h, c, TRUE, "", facts, 0)

\* getFactById; the promoting upsert is not caught
TieredGetById(h, c, cfg, factId, now, base, coldOk, hotOk) ==
    IF ~hotOk THEN Outcome(h, c, FALSE, "hot", <<>>, 0)
    ELSE LET hotFact == GetFactById(h, factId)
         IN IF hotFact # Null THEN Outcome(h, c, TRUE, "", hotFact, 0)
            ELSE IF ~coldOk THEN Outcome(h, c, FALSE, "cold", <<>>, 0)
            ELSE LET fact == GetFactById(c, factId)
                 IN IF fact # Null /\ cfg.autoPromote
                    THEN Outcome(UpsertFact(h, fact[1], now, base).entries, c, TRUE, "",
                                 fact, 1)
                    ELSE Outcome(h, c, TRUE, "", fact, 0)

WarmCacheFilter(cfg) ==
    [ValidOnlyFilter EXCEPT !.limit = cfg.hotFactLimit, !.orderBy = "updatedAt",
                            !.orderDir = "desc"]

\* warmCache; promotion failures are caught one by one
TieredWarm(h, c, cfg, now, base, coldOk, hotOk) ==
    IF ~coldOk THEN Outcome(h, c, FALSE, "cold", <<>>, 0)
    ELSE LET facts == GetFacts(c, WarmCacheFilter(cfg))
         IN IF hotOk THEN Outcome(PromoteFactsToHot(h, facts, now, base), c, TRUE, "",
                                  <<>>, Len(facts))
            ELSE Outcome(h, c, TRUE, "", <<>>, 0)

\* the stores and the record of the call after a TieredAdapter call
Completes(budget, call, u, filter, coldOk, hotOk, r) ==
    /\ tCalls[budget] > 0
    /\ tCalls' = [tCalls EXCEPT ![budget] = @ - 1]
    /\ hot' = [hot EXCEPT ![u] = r.hot]
    /\ cold' = [cold EXCEPT ![u] = r.cold]
    /\ nextId' = nextId + r.ids
    /\ tResult' = [call |-> call, userId |-> u, coldOk |-> coldOk, hotOk |-> hotOk,
                   ok |-> r.ok, error |-> r.error, filter |-> filter, facts |-> r.facts]
    /\ UNCHANGED <<clock, pipeVars, decayVars, hydrateVars, tConfig, queueVars, cacheVars, consVars, storeVars, overlapVars>>

IdsOf(entries) ==
    {entries[i].key : i \in 1..Len(entries)} \cup {entries[i].fact.id : i \in 1..Len(entries)}

\* the fact ids a caller can pass: those it has seen, and one it has not
KnownIds(u) == IdsOf(hot[u]) \cup IdsOf(cold[u]) \cup {0}

TieredUpsertFact(u, fact, coldOk, hotOk) ==
    Completes("calls", "upsertFact", u, NoFilter, coldOk, hotOk,
              TieredUpsert(hot[u], cold[u], tConfig, fact, clock, nextId, coldOk, hotOk))

TieredUpdateFact(u, factId, updates, coldOk, hotOk) ==
    Completes("calls", "updateFact", u, NoFilter, coldOk, hotOk,
              TieredUpdate(hot[u], cold[u], factId, updates, clock, coldOk, hotOk))

TieredDeleteFact(u, factId, coldOk, hotOk) ==
    Completes("calls", "deleteFact", u, NoFilter, coldOk, hotOk,
              TieredDelete(hot[u], cold[u], factId, clock, coldOk, hotOk))

TieredGetFacts(u, filter, coldOk, hotOk) ==
    Completes("calls", "getFacts", u, filter, coldOk, hotOk,
              TieredGet(hot[u], cold[u], tConfig, filter, clock, nextId, coldOk, hotOk))

TieredGetFactById(u, factId, coldOk, hotOk) ==
    Completes("calls", "getFactById", u, NoFilter, coldOk, hotOk,
              TieredGetById(hot[u], cold[u], tConfig, factId, clock, nextId, coldOk, hotOk))

WarmCache(u, coldOk, hotOk) ==
    Completes("calls", "warmCache", u, NoFilter, coldOk, hotOk,
              TieredWarm(hot[u], cold[u], tConfig, clock, nextId, coldOk, hotOk))

\* the application writes to the cold adapter itself
ColdUpsertFact(u, fact) ==
    Completes("writes", "cold.upsertFact", u, NoFilter, TRUE, TRUE,
              LET cr == UpsertFact(cold[u], fact, clock, nextId)
              IN Outcome(hot[u], cr.entries, TRUE, "", <<cr.saved>>, 1))

ColdDeleteFact(u, factId) ==
    Completes("writes", "cold.deleteFact", u, NoFilter, TRUE, TRUE,
              Outcome(hot[u], DeleteFact(cold[u], factId, clock), TRUE, "", <<>>, 0))

TieredFacts ==
    {TieredFact(s, p, o) : s \in Subjects, p \in TieredPredicates, o \in Objects}

\* upsertFact, getFacts, getFactById and warmCache, with both stores answering
NextTieredReads ==
    \/ Tick
    \/ \E u \in Users, fact \in TieredFacts : TieredUpsertFact(u, fact, TRUE, TRUE)
    \/ \E u \in Users, filter \in TieredFilters : TieredGetFacts(u, filter, TRUE, TRUE)
    \/ \E u \in Users : \E factId \in KnownIds(u) : TieredGetFactById(u, factId, TRUE, TRUE)
    \/ \E u \in Users : WarmCache(u, TRUE, TRUE)

\* reads of what the application wrote to the cold adapter itself
NextTieredPromote ==
    \/ Tick
    \/ \E u \in Users, fact \in TieredFacts : ColdUpsertFact(u, fact)
    \/ \E u \in Users : \E factId \in KnownIds(u) : ColdDeleteFact(u, factId)
    \/ \E u \in Users, filter \in TieredFilters : TieredGetFacts(u, filter, TRUE, TRUE)

\* upserts of two keys; updateFact is what changes an object
FaultFacts ==
    {fact \in TieredFacts : fact.predicate \in {"NAME", "LOCATION"} /\ fact.object = "a"}

\* <<coldOk, hotOk>>: which store answers during a call
Faults == {<<TRUE, TRUE>>, <<FALSE, TRUE>>, <<TRUE, FALSE>>}

\* every TieredAdapter call, with either store failing
NextTiered ==
    \/ Tick
    \/ \E u \in Users, fact \in FaultFacts, ok \in Faults :
          TieredUpsertFact(u, fact, ok[1], ok[2])
    \/ \E u \in Users, ok \in Faults :
          \E factId \in KnownIds(u) :
              TieredUpdateFact(u, factId, [object |-> "b"], ok[1], ok[2])
    \/ \E u \in Users, ok \in Faults :
          \E factId \in KnownIds(u) : TieredDeleteFact(u, factId, ok[1], ok[2])
    \/ \E u \in Users, filter \in TieredFilters, ok \in Faults :
          TieredGetFacts(u, filter, ok[1], ok[2])
    \/ \E u \in Users, ok \in Faults :
          \E factId \in KnownIds(u) : TieredGetFactById(u, factId, ok[1], ok[2])
    \/ \E u \in Users, ok \in Faults : WarmCache(u, ok[1], ok[2])

(***************************************************************************)
(* ExtractorWorker's queue (enqueue, processQueue, drain) and              *)
(* MemoryOS.digest / drain.  One state per await boundary; every storage   *)
(* and LLM call either returns or throws.                                  *)
(***************************************************************************)
DrainPollMs == 100

\* the operations the collaborator proposes for a queued exchange
QueueBatches ==
    {<<>>} \cup
    {<<[op |-> "INSERT", subject |-> "User", predicate |-> LOCATION, object |-> o,
        confidence |-> 8, importance |-> 5, reason |-> Null]>> : o \in Objects}

NoQueue ==
    /\ queue = <<>>
    /\ processing = FALSE
    /\ pendingDigests = <<>>
    /\ dpc = "none"
    /\ submitted = 0
    /\ exchanges = 0
    /\ enqOrder = <<>>
    /\ startOrder = <<>>
    /\ finished = {}
    /\ lastThrew = FALSE
    /\ drainAwaits = {}
    /\ taskBefore = <<>>
    /\ applyFailed = FALSE

InitQueue(n) ==
    /\ exchanges = n
    /\ queue = <<>>
    /\ processing = FALSE
    /\ pendingDigests = <<>>
    /\ dpc = "none"
    /\ submitted = 0
    /\ enqOrder = <<>>
    /\ startOrder = <<>>
    /\ finished = {}
    /\ lastThrew = FALSE
    /\ drainAwaits = {}
    /\ taskBefore = <<>>
    /\ applyFailed = FALSE

QueueTask(u, x) == [userId |-> u, sessionId |-> "s1", x |-> x]

\* processQueue taking the newest task instead of the oldest
ProcessQueueLoopLifo(q, threw) ==
    IF q # <<>>
    THEN [processing |-> TRUE, task |-> q[Len(q)], queue |-> SubSeq(q, 1, Len(q) - 1)]
    ELSE [processing |-> FALSE, task |-> NoTask, queue |-> q]

\* processQueue giving up after a task that threw
ProcessQueueLoopAbort(q, threw) ==
    IF q # <<>> /\ ~threw
    THEN [processing |-> TRUE, task |-> Head(q), queue |-> Tail(q)]
    ELSE [processing |-> FALSE, task |-> NoTask, queue |-> q]

\* processQueue's while loop from its condition to the next await (processTask
\* entered for the shifted task) or to the finally block; a task that threw
\* was caught and changes nothing
ProcessQueueLoop(q, threw) ==
    IF q # <<>>
    THEN [processing |-> TRUE, task |-> Head(q), queue |-> Tail(q)]
    ELSE [processing |-> FALSE, task |-> NoTask, queue |-> q]

\* enqueue that never starts the consumer
EnqueueStartsNever(isProcessing) == FALSE

\* enqueue: if (!this.processing) this.processQueue()
EnqueueStarts(isProcessing) == ~isProcessing

\* drain that waits for the queue only
DrainWaitsQueueOnly(q, isProcessing) == q # <<>>

\* drain: while (this.queue.length > 0 || this.processing)
DrainWaits(q, isProcessing) == q # <<>> \/ isProcessing

\* processTask is entered for the task the loop hands out, up to its first
\* await (adapter.getFacts); or the loop has ended
LoopContinues(r) ==
    /\ queue' = r.queue
    /\ processing' = r.processing
    /\ task' = r.task
    /\ pc' = IF r.task = NoTask THEN "idle" ELSE "facts"
    /\ startOrder' = IF r.task = NoTask THEN startOrder ELSE Append(startOrder, r.task.x)
    /\ taskBefore' = IF r.task = NoTask THEN <<>>
                     ELSE GetFacts(mem[r.task.userId], ValidOnlyFilter)
    /\ applyFailed' = FALSE
    /\ confident' = <<>>
    /\ existingFacts' = <<>>
    /\ resolved' = <<>>
    /\ conflicts' = <<>>
    /\ idx' = 0
    /\ matching' = Null

\* ExtractorWorker.enqueue with the exchange t
EnqueueTask(t) ==
    /\ enqOrder' = Append(enqOrder, t.x)
    /\ IF EnqueueStarts(processing)
       THEN LoopContinues(ProcessQueueLoop(Append(queue, t), FALSE))
       ELSE /\ queue' = Append(queue, t)
            /\ UNCHANGED <<processing, task, pc, startOrder, taskBefore, applyFailed,
                           confident, existingFacts, resolved, conflicts, idx, matching>>

\* extractor.enqueue(...) called by the application
Enqueue(u) ==
    /\ submitted < exchanges
    /\ submitted' = submitted + 1
    /\ EnqueueTask(QueueTask(u, submitted + 1))
    /\ UNCHANGED <<rawResult, clock, strategy, mem, opsLeft, decayVars, hydrateVars, tieredVars, cacheVars, consVars,
                   pendingDigests, dpc, finished, lastThrew, exchanges, drainAwaits, storeVars, overlapVars>>

\* MemoryOS.digest: returns at once, the rest runs in the then callback
Digest(u) ==
    /\ submitted < exchanges
    /\ submitted' = submitted + 1
    /\ pendingDigests' = Append(pendingDigests, QueueTask(u, submitted + 1))
    /\ UNCHANGED <<clock, pipeVars, decayVars, hydrateVars, tieredVars, cacheVars, consVars, queue, processing,
                   dpc, enqOrder, startOrder, finished, lastThrew, exchanges, drainAwaits, taskBefore,
                   applyFailed, storeVars, overlapVars>>

\* digest's then callback: saveConversation is started, the exchange is enqueued
DigestThen ==
    /\ pendingDigests # <<>>
    /\ pendingDigests' = Tail(pendingDigests)
    /\ EnqueueTask(Head(pendingDigests))
    /\ UNCHANGED <<rawResult, clock, strategy, mem, opsLeft, decayVars, hydrateVars, tieredVars, cacheVars, consVars,
                   dpc, submitted, finished, lastThrew, exchanges, drainAwaits, storeVars, overlapVars>>

\* processTask: the first adapter.getFacts returns, provider.complete is called
TaskGetFacts ==
    /\ pc = "facts"
    /\ pc' = "llm"
    /\ UNCHANGED <<rawResult, clock, strategy, mem, task, confident, existingFacts, resolved,
                   conflicts, idx, matching, opsLeft, decayVars, hydrateVars, tieredVars,
                   queueVars, cacheVars, consVars, storeVars, overlapVars>>

\* processTask rejects: adapter.getFacts, provider.complete or resolve's
\* adapter.getFacts threw
TaskThrows ==
    /\ pc \in {"facts", "llm", "resolve"}
    /\ pc' = "failed"
    /\ UNCHANGED <<rawResult, clock, strategy, mem, task, confident, existingFacts, resolved,
                   conflicts, idx, matching, opsLeft, decayVars, hydrateVars, tieredVars,
                   queueVars, cacheVars, consVars, storeVars, overlapVars>>

\* applyOperations: the storage call of the current operation threw; the
\* catch of the loop body goes on with the next operation
ApplyThrows ==
    /\ \/ pc = "apply" /\ idx <= Len(resolved)
       \/ pc = "delete"
    /\ pc' = "apply"
    /\ idx' = idx + 1
    /\ matching' = Null
    /\ applyFailed' = TRUE
    /\ UNCHANGED <<rawResult, clock, strategy, mem, task, confident, existingFacts, resolved,
                   conflicts, opsLeft, decayVars, hydrateVars, tieredVars, cacheVars, consVars, queue,
                   processing, pendingDigests, dpc, submitted, enqOrder, startOrder,
                   finished, lastThrew, exchanges, drainAwaits, taskBefore, storeVars, overlapVars>>

\* processQueue resumes after processTask returned or threw (caught)
ProcessQueueResume ==
    /\ processing
    /\ pc \in {"done", "failed"}
    /\ finished' = finished \cup {task.x}
    /\ lastThrew' = (pc = "failed")
    /\ LoopContinues(ProcessQueueLoop(queue, pc = "failed"))
    /\ UNCHANGED <<rawResult, clock, strategy, mem, opsLeft, decayVars, hydrateVars, tieredVars, cacheVars, consVars,
                   pendingDigests, dpc, submitted, enqOrder, exchanges, drainAwaits, storeVars, overlapVars>>

\* ExtractorWorker.drain / MemoryOS.drain is called: the loop condition is
\* evaluated before the first await
DrainCall ==
    /\ dpc = "none"
    /\ drainAwaits' = 1..submitted
    /\ dpc' = IF DrainWaits(queue, processing) THEN "polling" ELSE "resolved"
    /\ UNCHANGED <<clock, pipeVars, decayVars, hydrateVars, tieredVars, cacheVars, consVars, queue, processing,
                   pendingDigests, submitted, enqOrder, startOrder, finished, lastThrew, exchanges,
                   taskBefore, applyFailed, storeVars, overlapVars>>

\* drain: the 100 ms timer fires and the loop condition is evaluated again
DrainPoll ==
    /\ dpc = "polling"
    /\ dpc' = IF DrainWaits(queue, processing) THEN "polling" ELSE "resolved"
    /\ UNCHANGED <<clock, pipeVars, decayVars, hydrateVars, tieredVars, cacheVars, consVars, queue, processing,
                   pendingDigests, submitted, enqOrder, startOrder, finished, lastThrew, exchanges, drainAwaits,
                   taskBefore, applyFailed, storeVars, overlapVars>>

\* the steps of a task in flight
TaskStep ==
    \/ TaskGetFacts
    \/ TaskThrows
    \/ ApplyThrows
    \/ ApplyDone
    \/ ProcessQueueResume
    \/ \E operations \in QueueBatches : LLMCompleteValid(operations)
    \/ ResolveGetFacts
    \/ ResolveOps
    \/ ApplyDeleteFind
    \/ ApplyDeleteFact
    \/ ApplyUpsert

NextQueue ==
    \/ \E u \in Users : Enqueue(u)
    \/ \E u \in Users : Digest(u)
    \/ DigestThen
    \/ TaskStep
    \/ DrainCall
    \/ DrainPoll

(***************************************************************************)
(* SemanticCache.  A score or threshold is the fraction num/den.           *)
(***************************************************************************)
CacheUsers == {"u1", "u2"}

CacheQueries ==
    {<<"a", " ", "b">>, <<" ", "A", " ", "b">>, <<"a", " ", "b", "?">>, <<"c">>}

CacheConfigs ==
    [maxSize : {1, 2}, ttlMs : {0, 1},
     similarityThreshold : {[num |-> 0, den |-> 1], [num |-> 1, den |-> 3],
                            [num |-> 85, den |-> 100]}]

NoCacheResult == [seq |-> 0, userId |-> "", query |-> <<>>, context |-> Null]

NoCache ==
    /\ cache = [u \in Users |-> <<>>]
    /\ cStats = [hits |-> 0, misses |-> 0, evictions |-> 0]
    /\ cConfig = [maxSize |-> 1, ttlMs |-> 0, similarityThreshold |-> One]
    /\ cResult = NoCacheResult
    /\ cOps = MaxCacheOps

\* a new SemanticCache used by the principals users, with n calls to go
InitCache(users, n) ==
    /\ cache = [u \in users |-> <<>>]
    /\ cStats = [hits |-> 0, misses |-> 0, evictions |-> 0]
    /\ cConfig \in CacheConfigs
    /\ cResult = NoCacheResult
    /\ cOps = MaxCacheOps - n

AtLeast(x, y) == x.num * y.den >= y.num * x.den
Above(x, y) == x.num * y.den > y.num * x.den

CalculateSimilarity(a, b) ==
    IF a = b THEN One
    ELSE LET tokensA == Tokens(a)
             tokensB == Tokens(b)
             intersection == Cardinality(tokensA \cap tokensB)
         IN IF tokensA = {} \/ tokensB = {} THEN [num |-> 0, den |-> 1]
            ELSE [num |-> intersection,
                  den |-> Cardinality(tokensA) + Cardinality(tokensB) - intersection]

\* the for loop of get from entry i on: the index of bestMatch (0: null)
RECURSIVE BestMatch(_, _, _, _, _, _)
BestMatch(entries, i, now, queryLower, bestMatch, bestScore) ==
    IF i > Len(entries) THEN bestMatch
    ELSE IF now - entries[i].timestamp > cConfig.ttlMs
         THEN BestMatch(entries, i + 1, now, queryLower, bestMatch, bestScore)
         ELSE LET score == CalculateSimilarity(queryLower, entries[i].queryLower)
              IN IF AtLeast(score, cConfig.similarityThreshold) /\ Above(score, bestScore)
                 THEN BestMatch(entries, i + 1, now, queryLower, i, score)
                 ELSE BestMatch(entries, i + 1, now, queryLower, bestMatch, bestScore)

CacheGet(u, query) ==
    /\ cOps < MaxCacheOps
    /\ cOps' = cOps + 1
    /\ LET entries == cache[u]
           queryLower == Trim(LowerCase(query))
           best == BestMatch(entries, 1, clock, queryLower, 0, [num |-> 0, den |-> 1])
       IN IF entries = <<>> \/ best = 0
          THEN /\ cStats' = [cStats EXCEPT !.misses = @ + 1]
               /\ cResult' = [seq |-> cOps', userId |-> u, query |-> query, context |-> Null]
               /\ cache' = cache
          ELSE /\ cache' = [cache EXCEPT ![u][best].hits = @ + 1]
               /\ cStats' = [cStats EXCEPT !.hits = @ + 1]
               /\ cResult' = [seq |-> cOps', userId |-> u, query |-> query,
                              context |-> <<[source |-> entries[best].context,
                                             fromCache |-> TRUE]>>]
    /\ UNCHANGED <<clock, cConfig, pipeVars, decayVars, hydrateVars, tieredVars, queueVars, consVars, storeVars, overlapVars>>

\* set without the eviction branch
EvictNone(validEntries) == validEntries

\* set evicting by age alone
EvictOldest(validEntries) ==
    IF validEntries = <<>> THEN <<>> ELSE Tail(SortBy(validEntries, "timestamp", "asc"))

\* validEntries.sort(hits, then timestamp); validEntries.shift()
EvictOne(validEntries) ==
    LET sorted == SortBy(SortBy(validEntries, "timestamp", "asc"), "hits", "asc")
    IN IF sorted = <<>> THEN <<>> ELSE Tail(sorted)

CacheSet(u, query) ==
    /\ cOps < MaxCacheOps
    /\ cOps' = cOps + 1
    /\ LET now == clock
           Fresh(e) == now - e.timestamp <= cConfig.ttlMs
           validEntries == Filter(cache[u], Fresh)
           full == Len(validEntries) >= cConfig.maxSize
           kept == IF full THEN EvictOne(validEntries) ELSE validEntries
           entry == [query |-> query, queryLower |-> Trim(LowerCase(query)),
                     context |-> [userId |-> u, query |-> query], timestamp |-> now,
                     hits |-> 0]
       IN /\ cache' = [cache EXCEPT ![u] = Append(kept, entry)]
          /\ cStats' = IF full THEN [cStats EXCEPT !.evictions = @ + 1] ELSE cStats
    /\ UNCHANGED <<clock, cConfig, cResult, pipeVars, decayVars, hydrateVars, tieredVars,
                   queueVars, consVars, storeVars, overlapVars>>

\* invalidate emptying the whole map
CacheInvalidateAll(u) ==
    /\ cOps < MaxCacheOps
    /\ cOps' = cOps + 1
    /\ cache' = [v \in DOMAIN cache |-> <<>>]
    /\ UNCHANGED <<clock, cStats, cConfig, cResult, pipeVars, decayVars, hydrateVars,
                   tieredVars, queueVars, consVars, storeVars, overlapVars>>

\* cache.delete(userId): the user has no entries afterwards
CacheInvalidate(u) ==
    /\ cOps < MaxCacheOps
    /\ cOps' = cOps + 1
    /\ cache' = [cache EXCEPT ![u] = <<>>]
    /\ UNCHANGED <<clock, cStats, cConfig, cResult, pipeVars, decayVars, hydrateVars,
                   tieredVars, queueVars, consVars, storeVars, overlapVars>>

CacheClear ==
    /\ cOps < MaxCacheOps
    /\ cOps' = cOps + 1
    /\ cache' = [u \in DOMAIN cache |-> <<>>]
    /\ UNCHANGED <<clock, cStats, cConfig, cResult, pipeVars, decayVars, hydrateVars,
                   tieredVars, queueVars, consVars, storeVars, overlapVars>>

NextCache ==
    \/ \E u \in DOMAIN cache, query \in CacheQueries : CacheSet(u, query)
    \/ \E u \in DOMAIN cache, query \in CacheQueries : CacheGet(u, query)
    \/ \E u \in DOMAIN cache : CacheInvalidate(u)
    \/ CacheClear
    \/ Tick

(***************************************************************************)
(* ConsolidationWorker over an InMemoryAdapter.  Times are in hours.  An   *)
(* optional property that is not set is a field the fact does not have.    *)
(***************************************************************************)
ConsolidationUsers == {"u1", "u2"}
Stages == {"short-term", "working", "long-term"}
MaxAgeHours == {0, 1}

\* the constructor: the caller's thresholds, in hours and accesses
ConsolidationConfigs ==
    [shortTermHours : {1}, workingHours : {2}, workingAccessThreshold : {1, 2},
     longTermAccessThreshold : {2}]

NoConsolidationResult ==
    [call |-> "", stage |-> "", pruned |-> 0, promoted |-> 0, demoted |-> 0]

NoConsolidation ==
    /\ cwMem = [u \in Users |-> <<>>]
    /\ cwConfig = [shortTermHours |-> 1, workingHours |-> 24, workingAccessThreshold |-> 2,
                   longTermAccessThreshold |-> 5]
    /\ cwNow = 0
    /\ cwResult = NoConsolidationResult
    /\ cwOps = MaxConsolidationOps
    /\ cwForeign = {}

InitConsolidation ==
    /\ cwMem = [u \in ConsolidationUsers |-> <<>>]
    /\ cwConfig \in ConsolidationConfigs
    /\ cwNow = 0
    /\ cwResult = NoConsolidationResult
    /\ cwOps = 0
    /\ cwForeign = {}

\* one principal, for the runs in which the application writes stages itself
InitConsolidationStages ==
    /\ cwMem = [u \in Users |-> <<>>]
    /\ cwConfig \in ConsolidationConfigs
    /\ cwNow = 0
    /\ cwResult = NoConsolidationResult
    /\ cwOps = 0
    /\ cwForeign = {}

StageOrder == [x \in Stages |-> CASE x = "short-term" -> 0 [] x = "working" -> 1 [] OTHER -> 2]

\* determineStage with "working" kept for the ages below workingHours
DetermineStageWindow(cfg, fact, now) ==
    LET ageHours == now - fact.createdAt
        accessCount == AccessCount(fact)
    IN IF ageHours >= cfg.workingHours /\ accessCount >= cfg.longTermAccessThreshold
       THEN "long-term"
       ELSE IF (ageHours >= cfg.shortTermHours /\ ageHours < cfg.workingHours)
                 \/ accessCount >= cfg.workingAccessThreshold
            THEN "working"
            ELSE "short-term"

\* fact.memoryStage ?? "short-term"
StoredStage(fact) ==
    IF "memoryStage" \in DOMAIN fact THEN fact.memoryStage ELSE "short-term"

\* determineStage comparing ages strictly
DetermineStageStrict(cfg, fact, now) ==
    LET ageHours == now - fact.createdAt
        accessCount == AccessCount(fact)
    IN IF ageHours > cfg.workingHours /\ accessCount >= cfg.longTermAccessThreshold
       THEN "long-term"
       ELSE IF ageHours > cfg.shortTermHours \/ accessCount >= cfg.workingAccessThreshold
            THEN "working"
            ELSE "short-term"

DetermineStage(cfg, fact, now) ==
    LET ageHours == now - fact.createdAt
        accessCount == AccessCount(fact)
    IN IF ageHours >= cfg.workingHours /\ accessCount >= cfg.longTermAccessThreshold
       THEN "long-term"
       ELSE IF ageHours >= cfg.shortTermHours \/ accessCount >= cfg.workingAccessThreshold
            THEN "working"
            ELSE "short-term"

GetFactsByStage(entries, stage) ==
    Filter(GetFacts(entries, ValidOnlyFilter), LAMBDA f : StoredStage(f) = stage)

NoCounts == [promoted |-> 0, demoted |-> 0, unchanged |-> 0]

\* the for loop of consolidate handling the first fact only
ConsolidateFirst(entries, facts, i, now, counts) ==
    IF facts = <<>> \/ StoredStage(facts[1]) = DetermineStage(cwConfig, facts[1], now)
    THEN [entries |-> entries, counts |-> [counts EXCEPT !.unchanged = Len(facts)]]
    ELSE [entries |-> UpdateFact(entries, facts[1].id,
                                 [memoryStage |-> DetermineStage(cwConfig, facts[1], now)],
                                 now).entries,
          counts |-> [counts EXCEPT !.promoted = 1, !.unchanged = Len(facts) - 1]]

\* the for loop of consolidate from fact i on: the map and the counters
RECURSIVE ConsolidateLoop(_, _, _, _, _)
ConsolidateLoop(entries, facts, i, now, counts) ==
    IF i > Len(facts) THEN [entries |-> entries, counts |-> counts]
    ELSE LET fact == facts[i]
             currentStage == StoredStage(fact)
             targetStage == DetermineStage(cwConfig, fact, now)
         IN IF currentStage # targetStage
            THEN ConsolidateLoop(
                     UpdateFact(entries, fact.id, [memoryStage |-> targetStage], now).entries,
                     facts, i + 1, now,
                     IF StageOrder[targetStage] > StageOrder[currentStage]
                     THEN [counts EXCEPT !.promoted = @ + 1]
                     ELSE [counts EXCEPT !.demoted = @ + 1])
            ELSE ConsolidateLoop(entries, facts, i + 1, now,
                                 [counts EXCEPT !.unchanged = @ + 1])

\* pruneShortTerm testing the age only
ShouldPruneShortTermByAge(fact, cutoff) == fact.createdAt < cutoff

\* the test of pruneShortTerm on one short-term fact
ShouldPruneShortTerm(fact, cutoff) == fact.createdAt < cutoff /\ AccessCount(fact) = 0

\* the for loop of pruneShortTerm from fact i on: the map and the count
RECURSIVE PruneLoop(_, _, _, _, _, _)
PruneLoop(entries, facts, i, cutoff, now, pruned) ==
    IF i > Len(facts) THEN [entries |-> entries, pruned |-> pruned]
    ELSE IF ShouldPruneShortTerm(facts[i], cutoff)
         THEN PruneLoop(DeleteFact(entries, facts[i].id, now), facts, i + 1, cutoff, now,
                        pruned + 1)
         ELSE PruneLoop(entries, facts, i + 1, cutoff, now, pruned)

\* adapter.upsertFact: by MemoryOS.addFact (no stage) or by the extraction
\* worker (memoryStage "short-term")
ConsolidationAdd(u, predicate, staged) ==
    /\ cwOps < MaxConsolidationOps
    /\ cwOps' = cwOps + 1
    /\ LET base == [subject |-> "User", predicate |-> predicate, object |-> "a",
                    invalidatedAt |-> Null]
           fact == IF staged THEN Spread(base, [memoryStage |-> "short-term"]) ELSE base
           r == UpsertFact(cwMem[u], fact, cwNow, NewId(cwMem[u]))
       IN /\ cwMem' = [cwMem EXCEPT ![u] = r.entries]
          /\ cwForeign' = IF staged THEN cwForeign \cup {<<u, r.saved.id>>} ELSE cwForeign
    /\ cwResult' = NoConsolidationResult
    /\ UNCHANGED <<cwConfig, cwNow, clock, pipeVars, decayVars, hydrateVars, tieredVars,
                   queueVars, cacheVars, storeVars, overlapVars>>

\* ContextHydrator.recordAccess on one fact
ConsolidationAccess(u, factId) ==
    /\ cwOps < MaxConsolidationOps
    /\ cwOps' = cwOps + 1
    /\ MapHas(cwMem[u], factId)
    /\ LET fact == MapGet(cwMem[u], factId)
       IN cwMem' = [cwMem EXCEPT ![u] =
                       UpdateFact(@, factId, [accessCount |-> AccessCount(fact) + 1],
                                  cwNow).entries]
    /\ cwResult' = NoConsolidationResult
    /\ UNCHANGED <<cwConfig, cwNow, cwForeign, clock, pipeVars, decayVars, hydrateVars, tieredVars,
                   queueVars, cacheVars, storeVars, overlapVars>>

\* the facts consolidate writes a stage to
Restaged(entries, now) ==
    Filter(GetFacts(entries, ValidOnlyFilter),
           LAMBDA f : StoredStage(f) # DetermineStage(cwConfig, f, now))

\* adapter.updateFact(userId, id, { memoryStage }) by the application
ConsolidationSetStage(u, factId, stage) ==
    /\ cwOps < MaxConsolidationOps
    /\ cwOps' = cwOps + 1
    /\ MapHas(cwMem[u], factId)
    /\ cwMem' = [cwMem EXCEPT ![u] = UpdateFact(@, factId, [memoryStage |-> stage], cwNow).entries]
    /\ cwForeign' = cwForeign \cup {<<u, factId>>}
    /\ cwResult' = NoConsolidationResult
    /\ UNCHANGED <<cwConfig, cwNow, clock, pipeVars, decayVars, hydrateVars, tieredVars,
                   queueVars, cacheVars, storeVars, overlapVars>>

DetermineStageCall(u, factId) ==
    /\ MapHas(cwMem[u], factId)
    /\ cwResult' = [NoConsolidationResult EXCEPT
                        !.call = "determineStage",
                        !.stage = DetermineStage(cwConfig, MapGet(cwMem[u], factId), cwNow)]
    /\ UNCHANGED <<cwMem, cwConfig, cwNow, cwOps, cwForeign, clock, pipeVars, decayVars, hydrateVars,
                   tieredVars, queueVars, cacheVars, storeVars, overlapVars>>

Consolidate(u) ==
    /\ cwOps < MaxConsolidationOps
    /\ cwOps' = cwOps + 1
    /\ LET r == ConsolidateLoop(cwMem[u], GetFacts(cwMem[u], ValidOnlyFilter), 1, cwNow,
                                NoCounts)
       IN /\ cwMem' = [cwMem EXCEPT ![u] = r.entries]
          /\ cwResult' = [NoConsolidationResult EXCEPT
                              !.call = "consolidate", !.promoted = r.counts.promoted,
                              !.demoted = r.counts.demoted]
    /\ LET written == Restaged(cwMem[u], cwNow)
       IN cwForeign' = cwForeign \ {<<u, written[i].id>> : i \in DOMAIN written}
    /\ UNCHANGED <<cwConfig, cwNow, clock, pipeVars, decayVars, hydrateVars, tieredVars,
                   queueVars, cacheVars, storeVars, overlapVars>>

PruneShortTerm(u, maxAgeHours) ==
    /\ cwOps < MaxConsolidationOps
    /\ cwOps' = cwOps + 1
    /\ LET facts == GetFactsByStage(cwMem[u], "short-term")
           cutoff == cwNow - maxAgeHours
           r == PruneLoop(cwMem[u], facts, 1, cutoff, cwNow, 0)
       IN /\ cwMem' = [cwMem EXCEPT ![u] = r.entries]
          /\ cwResult' = [NoConsolidationResult EXCEPT
                              !.call = "pruneShortTerm", !.pruned = r.pruned]
    /\ UNCHANGED <<cwConfig, cwNow, cwForeign, clock, pipeVars, decayVars, hydrateVars, tieredVars,
                   queueVars, cacheVars, storeVars, overlapVars>>

\* an hour passes
ConsolidationTick ==
    /\ cwNow < MaxConsolidationHours
    /\ cwNow' = cwNow + 1
    /\ UNCHANGED <<cwMem, cwConfig, cwResult, cwOps, cwForeign, clock, pipeVars, decayVars,
                   hydrateVars, tieredVars, queueVars, cacheVars, storeVars, overlapVars>>

ConsolidationIds == 1..MaxConsolidationOps

NextConsolidation ==
    \/ \E u \in ConsolidationUsers, predicate \in Predicates, staged \in BOOLEAN :
           ConsolidationAdd(u, predicate, staged)
    \/ \E u \in ConsolidationUsers, factId \in ConsolidationIds : ConsolidationAccess(u, factId)
    \/ \E u \in ConsolidationUsers, factId \in ConsolidationIds : DetermineStageCall(u, factId)
    \/ \E u \in ConsolidationUsers : Consolidate(u)
    \/ \E u \in ConsolidationUsers, maxAgeHours \in MaxAgeHours : PruneShortTerm(u, maxAgeHours)
    \/ ConsolidationTick

(***************************************************************************)
(* Direct calls of the adapters: updateFact and deleteFact of an           *)
(* InMemoryAdapter, and the session operations of a TieredAdapter over two *)
(* InMemoryAdapters.                                                       *)
(***************************************************************************)
StoreUsers == {"u1", "u2"}
StoreIds == 1..(2 * MaxStoreOps)
SessionLimits == {0, 1}

NoStoreResult ==
    [call |-> "", userId |-> "", id |-> 0, ok |-> TRUE, error |-> "", sessions |-> <<>>]

NoStore ==
    /\ sFacts = [u \in Users |-> <<>>]
    /\ sHot = [u \in Users |-> <<>>]
    /\ sCold = [u \in Users |-> <<>>]
    /\ sResult = NoStoreResult
    /\ sOps = MaxStoreOps

InitStore ==
    /\ sFacts = [u \in StoreUsers |-> <<>>]
    /\ sHot = [u \in StoreUsers |-> <<>>]
    /\ sCold = [u \in StoreUsers |-> <<>>]
    /\ sResult = NoStoreResult
    /\ sOps = 0

KeysOf(maps) == UNION {{maps[u][i].key : i \in DOMAIN maps[u]} : u \in DOMAIN maps}

\* uuidv4(): an id no map of either adapter holds
FreshId == 1 + Cardinality(KeysOf(sHot) \cup KeysOf(sCold))

StoreCall ==
    /\ sOps < MaxStoreOps
    /\ sOps' = sOps + 1

\* InMemoryAdapter.upsertFact
StoreUpsertFact(u, predicate, object) ==
    /\ StoreCall
    /\ LET r == UpsertFact(sFacts[u],
                           [subject |-> "User", predicate |-> predicate, object |-> object,
                            invalidatedAt |-> Null],
                           clock, NewId(sFacts[u]))
       IN /\ sFacts' = [sFacts EXCEPT ![u] = r.entries]
          /\ sResult' = [NoStoreResult EXCEPT !.call = "upsertFact", !.userId = u]
    /\ UNCHANGED <<sHot, sCold, clock, pipeVars, decayVars, hydrateVars, tieredVars,
                   queueVars, cacheVars, consVars, overlapVars>>

\* InMemoryAdapter.updateFact: throws when the user's map has no such id
StoreUpdateFact(u, factId, object) ==
    /\ StoreCall
    /\ LET r == UpdateFact(sFacts[u], factId, [object |-> object], clock)
       IN /\ sFacts' = [sFacts EXCEPT ![u] = r.entries]
          /\ sResult' = [NoStoreResult EXCEPT
                             !.call = "updateFact", !.userId = u, !.id = factId, !.ok = r.ok,
                             !.error = IF r.ok THEN "" ELSE "Fact not found"]
    /\ UNCHANGED <<sHot, sCold, clock, pipeVars, decayVars, hydrateVars, tieredVars,
                   queueVars, cacheVars, consVars, overlapVars>>

\* InMemoryAdapter.deleteFact: resolves whether or not the map has the id
StoreDeleteFact(u, factId) ==
    /\ StoreCall
    /\ sFacts' = [sFacts EXCEPT ![u] = DeleteFact(@, factId, clock)]
    /\ sResult' = [NoStoreResult EXCEPT !.call = "deleteFact", !.userId = u, !.id = factId]
    /\ UNCHANGED <<sHot, sCold, clock, pipeVars, decayVars, hydrateVars, tieredVars,
                   queueVars, cacheVars, consVars, overlapVars>>

NextStoreFacts ==
    \/ \E u \in StoreUsers, predicate \in Predicates, object \in Objects :
           StoreUpsertFact(u, predicate, object)
    \/ \E u \in StoreUsers, factId \in StoreIds, object \in Objects :
           StoreUpdateFact(u, factId, object)
    \/ \E u \in StoreUsers, factId \in StoreIds : StoreDeleteFact(u, factId)

\* InMemoryAdapter.createSession on one adapter's map
CreateSession(entries, u, now, newId) ==
    LET session == [id |-> newId, userId |-> u, startedAt |-> now, endedAt |-> Null,
                    messageCount |-> 0]
    IN [entries |-> MapSet(entries, newId, session), session |-> session]

\* InMemoryAdapter.endSession
EndSession(entries, sessionId, summary, now) ==
    IF ~MapHas(entries, sessionId)
    THEN [ok |-> FALSE, entries |-> entries, session |-> Null]
    ELSE LET ended == Spread(MapGet(entries, sessionId), [endedAt |-> <<now>>])
             session == IF summary # "" THEN Spread(ended, [summary |-> summary]) ELSE ended
         IN [ok |-> TRUE, entries |-> MapSet(entries, sessionId, session), session |-> session]

\* InMemoryAdapter.getSessions
GetSessions(entries, limit) ==
    LET sessions == SortBy(MapValues(entries), "startedAt", "desc")
    IN IF limit # 0 THEN Slice0(sessions, limit) ELSE sessions

\* InMemoryAdapter.getSession
GetSession(entries, sessionId) ==
    IF MapHas(entries, sessionId) THEN <<MapGet(entries, sessionId)>> ELSE <<>>

\* TieredAdapter.createSession: cold, then hot with its failure swallowed
TieredCreateSession(u, hotOk) ==
    /\ StoreCall
    /\ LET c == CreateSession(sCold[u], u, clock, FreshId)
           h == CreateSession(sHot[u], u, clock, FreshId + 1)
       IN /\ sCold' = [sCold EXCEPT ![u] = c.entries]
          /\ sHot' = IF hotOk THEN [sHot EXCEPT ![u] = h.entries] ELSE sHot
          /\ sResult' = [NoStoreResult EXCEPT
                             !.call = "createSession", !.userId = u, !.id = FreshId,
                             !.sessions = <<c.session>>]
    /\ UNCHANGED <<sFacts, clock, pipeVars, decayVars, hydrateVars, tieredVars,
                   queueVars, cacheVars, consVars, overlapVars>>

\* TieredAdapter.endSession
TieredEndSession(u, sessionId, summary) ==
    /\ StoreCall
    /\ LET r == EndSession(sCold[u], sessionId, summary, clock)
       IN /\ sCold' = [sCold EXCEPT ![u] = r.entries]
          /\ sResult' = [NoStoreResult EXCEPT
                             !.call = "endSession", !.userId = u, !.id = sessionId,
                             !.ok = r.ok,
                             !.error = IF r.ok THEN "" ELSE "Session not found",
                             !.sessions = IF r.ok THEN <<r.session>> ELSE <<>>]
    /\ UNCHANGED <<sFacts, sHot, clock, pipeVars, decayVars, hydrateVars, tieredVars,
                   queueVars, cacheVars, consVars, overlapVars>>

\* TieredAdapter.getSession
TieredGetSession(u, sessionId) ==
    /\ StoreCall
    /\ sResult' = [NoStoreResult EXCEPT
                       !.call = "getSession", !.userId = u, !.id = sessionId,
                       !.sessions = GetSession(sCold[u], sessionId)]
    /\ UNCHANGED <<sFacts, sHot, sCold, clock, pipeVars, decayVars, hydrateVars, tieredVars,
                   queueVars, cacheVars, consVars, overlapVars>>

\* TieredAdapter.getSessions
TieredGetSessions(u, limit) ==
    /\ StoreCall
    /\ sResult' = [NoStoreResult EXCEPT
                       !.call = "getSessions", !.userId = u,
                       !.sessions = GetSessions(sCold[u], limit)]
    /\ UNCHANGED <<sFacts, sHot, sCold, clock, pipeVars, decayVars, hydrateVars, tieredVars,
                   queueVars, cacheVars, consVars, overlapVars>>

\* a millisecond passes
StoreTick ==
    /\ clock < MaxClock
    /\ clock' = clock + 1
    /\ UNCHANGED <<pipeVars, decayVars, hydrateVars, tieredVars, queueVars, cacheVars,
                   consVars, storeVars, overlapVars>>

NextStoreSessions ==
    \/ \E u \in StoreUsers, hotOk \in BOOLEAN : TieredCreateSession(u, hotOk)
    \/ \E u \in StoreUsers, sessionId \in StoreIds, summary \in {"", "s"} :
           TieredEndSession(u, sessionId, summary)
    \/ \E u \in StoreUsers, sessionId \in StoreIds : TieredGetSession(u, sessionId)
    \/ \E u \in StoreUsers, limit \in SessionLimits : TieredGetSessions(u, limit)
    \/ StoreTick

(***************************************************************************)
(* Two digestions of one principal that overlap: the queue consumer is in  *)
(* processTask for a task while extractNow (digestSync) runs processTask   *)
(* too, over one InMemoryAdapter.  A step is what one run does between two *)
(* awaits.                                                                 *)
(***************************************************************************)
Runs == {"consumer", "extractNow"}

\* what the extraction collaborator proposes to an overlapping run
OverlapOps ==
    [op : {"INSERT", "DELETE"}, subject : Subjects, predicate : {LOCATION}, object : Objects,
     confidence : {DefaultConfidence}, importance : Importances, reason : {Null}]

NoOverlap ==
    /\ oMem = [u \in Users |-> <<>>]
    /\ oPc = [r \in Runs |-> "idle"]
    /\ oConfident = [r \in Runs |-> <<>>]
    /\ oResolved = [r \in Runs |-> <<>>]
    /\ oIdx = [r \in Runs |-> 0]
    /\ oMatching = [r \in Runs |-> Null]
    /\ oOpsLeft = 0

InitOverlap ==
    /\ oMem = [u \in Users |-> <<>>]
    /\ oPc = [r \in Runs |-> "idle"]
    /\ oConfident = [r \in Runs |-> <<>>]
    /\ oResolved = [r \in Runs |-> <<>>]
    /\ oIdx = [r \in Runs |-> 0]
    /\ oMatching = [r \in Runs |-> Null]
    /\ oOpsLeft = MaxOverlapOps

OverlapUser == "u1"

\* processTask is entered: adapter.getFacts for the prompt returns and
\* provider.complete is called
OverlapStart(r) ==
    /\ oPc[r] = "idle"
    /\ oOpsLeft > 0
    /\ oPc' = [oPc EXCEPT ![r] = "llm"]
    /\ UNCHANGED <<oMem, oConfident, oResolved, oIdx, oMatching, oOpsLeft, clock, pipeVars,
                   decayVars, hydrateVars, tieredVars, queueVars, cacheVars, consVars,
                   storeVars>>

\* provider.complete returns: the confident operations; resolve calls getFacts
OverlapLLMComplete(r, operations) ==
    /\ oPc[r] = "llm"
    /\ Len(operations) <= oOpsLeft
    /\ oOpsLeft' = oOpsLeft - Len(operations)
    /\ oConfident' = [oConfident EXCEPT ![r] = FilterConfident(operations)]
    /\ oPc' = [oPc EXCEPT ![r] = IF oConfident'[r] = <<>> THEN "idle" ELSE "resolve"]
    /\ UNCHANGED <<oMem, oResolved, oIdx, oMatching, clock, pipeVars,
                   decayVars, hydrateVars, tieredVars, queueVars, cacheVars, consVars,
                   storeVars>>

\* resolve: getFacts returns, the loop runs over that snapshot, and
\* applyOperations is entered
OverlapResolve(r) ==
    /\ oPc[r] = "resolve"
    /\ LET existing == GetFacts(oMem[OverlapUser], ValidOnlyFilter)
       IN oResolved' = [oResolved EXCEPT
                           ![r] = ResolveLoop(strategy, oConfident[r], existing).ops]
    /\ oConfident' = [oConfident EXCEPT ![r] = <<>>]
    /\ oIdx' = [oIdx EXCEPT ![r] = 1]
    /\ oPc' = [oPc EXCEPT ![r] = "apply"]
    /\ UNCHANGED <<oMem, oMatching, oOpsLeft, clock, pipeVars,
                   decayVars, hydrateVars, tieredVars, queueVars, cacheVars, consVars,
                   storeVars>>

\* applyOperations, DELETE: getFacts returns and the matching fact is looked up
OverlapDeleteFind(r) ==
    /\ oPc[r] = "apply" /\ oIdx[r] <= Len(oResolved[r])
    /\ oResolved[r][oIdx[r]].op = "DELETE"
    /\ LET op == oResolved[r][oIdx[r]]
           facts == GetFacts(oMem[OverlapUser],
                             [ValidOnlyFilter EXCEPT !.subject = <<op.subject>>,
                                                     !.predicate = <<op.predicate>>])
           Match(f) == f.object = op.object
           i == FindIndex(facts, Match)
       IN IF i # 0
          THEN /\ oMatching' = [oMatching EXCEPT ![r] = <<facts[i].id>>]
               /\ oPc' = [oPc EXCEPT ![r] = "delete"]
               /\ oIdx' = oIdx
          ELSE /\ oMatching' = oMatching
               /\ oPc' = oPc
               /\ oIdx' = [oIdx EXCEPT ![r] = @ + 1]
    /\ UNCHANGED <<oMem, oConfident, oResolved, oOpsLeft, clock, pipeVars,
                   decayVars, hydrateVars, tieredVars, queueVars, cacheVars, consVars,
                   storeVars>>

\* applyOperations, DELETE: adapter.deleteFact returns
OverlapDeleteFact(r) ==
    /\ oPc[r] = "delete"
    /\ oMem' = [oMem EXCEPT ![OverlapUser] = DeleteFact(@, oMatching[r][1], clock)]
    /\ oMatching' = [oMatching EXCEPT ![r] = Null]
    /\ oIdx' = [oIdx EXCEPT ![r] = @ + 1]
    /\ oPc' = [oPc EXCEPT ![r] = "apply"]
    /\ UNCHANGED <<oConfident, oResolved, oOpsLeft, clock, pipeVars,
                   decayVars, hydrateVars, tieredVars, queueVars, cacheVars, consVars,
                   storeVars>>

\* applyOperations, INSERT or UPDATE: adapter.upsertFact returns
OverlapUpsert(r) ==
    /\ oPc[r] = "apply" /\ oIdx[r] <= Len(oResolved[r])
    /\ oResolved[r][oIdx[r]].op # "DELETE"
    /\ LET entries == oMem[OverlapUser]
           u == UpsertFact(entries, PipelineFact(oResolved[r][oIdx[r]], r), clock,
                           NewId(entries))
       IN oMem' = [oMem EXCEPT ![OverlapUser] = u.entries]
    /\ oIdx' = [oIdx EXCEPT ![r] = @ + 1]
    /\ UNCHANGED <<oPc, oConfident, oResolved, oMatching, oOpsLeft, clock, pipeVars,
                   decayVars, hydrateVars, tieredVars, queueVars, cacheVars, consVars,
                   storeVars>>

\* applyOperations' loop ends and processTask returns to its caller
OverlapDone(r) ==
    /\ oPc[r] = "apply" /\ oIdx[r] > Len(oResolved[r])
    /\ oPc' = [oPc EXCEPT ![r] = "idle"]
    /\ oResolved' = [oResolved EXCEPT ![r] = <<>>]
    /\ oIdx' = [oIdx EXCEPT ![r] = 0]
    /\ UNCHANGED <<oMem, oConfident, oMatching, oOpsLeft, clock, pipeVars,
                   decayVars, hydrateVars, tieredVars, queueVars, cacheVars, consVars,
                   storeVars>>

NextOverlap ==
    \/ \E r \in Runs : OverlapStart(r)
    \/ \E r \in Runs, operations \in SeqsUpTo(OverlapOps, oOpsLeft) :
           OverlapLLMComplete(r, operations)
    \/ \E r \in Runs : OverlapResolve(r)
    \/ \E r \in Runs : OverlapDeleteFind(r)
    \/ \E r \in Runs : OverlapDeleteFact(r)
    \/ \E r \in Runs : OverlapUpsert(r)
    \/ \E r \in Runs : OverlapDone(r)

\* the worker next to an application that writes stages through the adapter
NextConsolidationStages ==
    \/ \E u \in DOMAIN cwMem, predicate \in Predicates, staged \in BOOLEAN :
           ConsolidationAdd(u, predicate, staged)
    \/ \E u \in DOMAIN cwMem, factId \in ConsolidationIds : ConsolidationAccess(u, factId)
    \/ \E u \in DOMAIN cwMem, factId \in ConsolidationIds, stage \in Stages :
           ConsolidationSetStage(u, factId, stage)
    \/ \E u \in DOMAIN cwMem : Consolidate(u)
    \/ ConsolidationTick

(***************************************************************************)
(* Specifications.                                                         *)
(***************************************************************************)
Init ==
    /\ clock = 0
    /\ strategy \in Strategies
    /\ InitPipeline
    /\ NoDecay
    /\ NoHydrate
    /\ NoTiered
    /\ NoQueue
    /\ NoCache
    /\ NoConsolidation
    /\ NoStore
    /\ NoOverlap

Spec == Init /\ [][NextPipeline]_vars

InitSpecDecay ==
    /\ clock = 0
    /\ strategy = "latest"
    /\ InitPipeline
    /\ InitDecay
    /\ NoHydrate
    /\ NoTiered
    /\ NoQueue
    /\ NoCache
    /\ NoConsolidation
    /\ NoStore
    /\ NoOverlap

SpecDecay == InitSpecDecay /\ [][NextDecay]_vars

InitSpecHydrate ==
    /\ clock = 0
    /\ strategy = "latest"
    /\ InitPipeline
    /\ NoDecay
    /\ InitHydrate
    /\ NoTiered
    /\ NoQueue
    /\ NoCache
    /\ NoConsolidation
    /\ NoStore
    /\ NoOverlap

SpecHydrate == InitSpecHydrate /\ [][NextHydrate]_vars

InitSpecTiered ==
    /\ clock = 0
    /\ strategy = "latest"
    /\ InitPipeline
    /\ NoDecay
    /\ NoHydrate
    /\ InitTiered
    /\ NoQueue
    /\ NoCache
    /\ NoConsolidation
    /\ NoStore
    /\ NoOverlap

\* the calls of C7 and C8: upserts and reads, no failures
SpecTieredReads == InitSpecTiered /\ [][NextTieredReads]_vars

\* the calls of C9: reads that find the hot store empty
SpecTieredPromote == InitSpecTiered /\ [][NextTieredPromote]_vars

InitSpecTieredFaults ==
    /\ clock = 0
    /\ strategy = "latest"
    /\ InitPipeline
    /\ NoDecay
    /\ NoHydrate
    /\ InitTieredDefaults
    /\ NoQueue
    /\ NoCache
    /\ NoConsolidation
    /\ NoStore
    /\ NoOverlap

SpecTiered == InitSpecTieredFaults /\ [][NextTiered]_vars

InitSpecQueue ==
    /\ clock = 0
    /\ strategy = "latest"
    /\ InitPipeline
    /\ NoDecay
    /\ NoHydrate
    /\ NoTiered
    /\ InitQueue(MaxTasks)
    /\ NoCache
    /\ NoConsolidation
    /\ NoStore
    /\ NoOverlap

SpecQueue == InitSpecQueue /\ [][NextQueue]_vars

InitSpecQueueFair ==
    /\ clock = 0
    /\ strategy = "latest"
    /\ InitPipeline
    /\ NoDecay
    /\ NoHydrate
    /\ NoTiered
    /\ InitQueue(MaxFairTasks)
    /\ NoCache
    /\ NoConsolidation
    /\ NoStore
    /\ NoOverlap

\* every storage and LLM call eventually returns or throws, microtasks and
\* timers eventually run
SpecQueueFair ==
    /\ InitSpecQueueFair
    /\ [][NextQueue]_vars
    /\ WF_vars(TaskStep)
    /\ WF_vars(DigestThen)
    /\ WF_vars(DrainPoll)

InitSpecValidate ==
    /\ clock = 0
    /\ strategy = "latest"
    /\ rawResult = NoRaw
    /\ mem \in {[u \in Users |-> entries] : entries \in ValidateStores}
    /\ pc = "idle"
    /\ task = NoTask
    /\ confident = <<>>
    /\ existingFacts = <<>>
    /\ resolved = <<>>
    /\ conflicts = <<>>
    /\ idx = 0
    /\ matching = Null
    /\ opsLeft = MaxOps
    /\ NoDecay
    /\ NoHydrate
    /\ NoTiered
    /\ NoQueue
    /\ NoCache
    /\ NoConsolidation
    /\ NoStore
    /\ NoOverlap

SpecValidate == InitSpecValidate /\ [][NextValidate]_vars

InitSpecCache ==
    /\ clock = 0
    /\ strategy = "latest"
    /\ InitPipeline
    /\ NoDecay
    /\ NoHydrate
    /\ NoTiered
    /\ NoQueue
    /\ InitCache(Users, MaxCacheOps)
    /\ NoConsolidation
    /\ NoStore
    /\ NoOverlap

SpecCache == InitSpecCache /\ [][NextCache]_vars

InitSpecCachePrincipals ==
    /\ clock = 0
    /\ strategy = "latest"
    /\ InitPipeline
    /\ NoDecay
    /\ NoHydrate
    /\ NoTiered
    /\ NoQueue
    /\ InitCache(CacheUsers, MaxPrincipalCacheOps)
    /\ NoConsolidation
    /\ NoStore
    /\ NoOverlap

SpecCachePrincipals == InitSpecCachePrincipals /\ [][NextCache]_vars

InitSpecConsolidation ==
    /\ clock = 0
    /\ strategy = "latest"
    /\ InitPipeline
    /\ NoDecay
    /\ NoHydrate
    /\ NoTiered
    /\ NoQueue
    /\ NoCache
    /\ InitConsolidation
    /\ NoStore
    /\ NoOverlap

SpecConsolidation == InitSpecConsolidation /\ [][NextConsolidation]_vars

InitSpecConsolidationStages ==
    /\ clock = 0
    /\ strategy = "latest"
    /\ InitPipeline
    /\ NoDecay
    /\ NoHydrate
    /\ NoTiered
    /\ NoQueue
    /\ NoCache
    /\ InitConsolidationStages
    /\ NoStore
    /\ NoOverlap

SpecConsolidationStages == InitSpecConsolidationStages /\ [][NextConsolidationStages]_vars

InitSpecStore ==
    /\ clock = 0
    /\ strategy = "latest"
    /\ InitPipeline
    /\ NoDecay
    /\ NoHydrate
    /\ NoTiered
    /\ NoQueue
    /\ NoCache
    /\ NoConsolidation
    /\ InitStore
    /\ NoOverlap

InitSpecOverlap ==
    /\ clock = 0
    /\ strategy \in Strategies
    /\ InitPipeline
    /\ NoDecay
    /\ NoHydrate
    /\ NoTiered
    /\ NoQueue
    /\ NoCache
    /\ NoConsolidation
    /\ NoStore
    /\ InitOverlap

\* extractNow overlapping the queue consumer, interleaved at every await
SpecOverlap == InitSpecOverlap /\ [][NextOverlap]_vars

\* an application calling an InMemoryAdapter
SpecStoreFacts == InitSpecStore /\ [][NextStoreFacts]_vars

\* an application calling the session operations of a TieredAdapter
SpecStoreSessions == InitSpecStore /\ [][NextStoreSessions]_vars

(***************************************************************************)
(* Properties of the extraction pipeline.                                  *)
(***************************************************************************)
ValidFacts(entries) == GetFacts(entries, ValidOnlyFilter)

SameKey(f, g) == f.subject = g.subject /\ f.predicate = g.predicate

\* op is an INSERT/UPDATE meeting a valid fact with its key and another object
IsConflicting(op, existing) ==
    /\ op.op # "DELETE"
    /\ \E i \in 1..Len(existing) : SameKey(existing[i], op) /\ existing[i].object # op.object

\* op is an INSERT/UPDATE equal in subject, predicate and object to a valid fact
IsDuplicate(op, existing) ==
    /\ op.op # "DELETE"
    /\ \E i \in 1..Len(existing) : SameKey(existing[i], op) /\ existing[i].object = op.object

TheExisting(op, existing) ==
    existing[CHOOSE i \in 1..Len(existing) : SameKey(existing[i], op)]

\* how many resolved operations the first n operations account for under `latest`
RECURSIVE EmittedLatest(_, _, _)
EmittedLatest(operations, existing, n) ==
    IF n = 0 THEN 0
    ELSE EmittedLatest(operations, existing, n - 1)
         + (IF IsDuplicate(operations[n], existing) THEN 0
            ELSE IF IsConflicting(operations[n], existing) THEN 2 ELSE 1)

ConflictingIndexes(operations, existing) ==
    {i \in 1..Len(operations) : IsConflicting(operations[i], existing)}

JustResolved == pc = "apply" /\ idx = 1

\* C1: under `latest`, every (principal, subject, predicate) has at most one
\* fact with invalidatedAt = null, in every state of the pipeline, the states
\* between two storage calls of applyOperations included.
C1_AtMostOneValid ==
    strategy = "latest" =>
        \A u \in Users : \A i, j \in 1..Len(mem[u]) :
            (/\ i # j
             /\ mem[u][i].fact.invalidatedAt = Null
             /\ mem[u][j].fact.invalidatedAt = Null)
            => ~SameKey(mem[u][i].fact, mem[u][j].fact)

\* a replacement is half applied: the old fact is invalidated, the new
\* operation not yet written
C1_Witness ==
    /\ strategy = "latest"
    /\ pc = "apply" /\ idx >= 2 /\ idx <= Len(resolved)
    /\ resolved[idx - 1].op = "DELETE" /\ resolved[idx - 1].reason # Null
    /\ resolved[idx].op # "DELETE"
    /\ \E i \in 1..Len(mem[task.userId]) :
          /\ mem[task.userId][i].fact.invalidatedAt # Null
          /\ mem[task.userId][i].fact.object = resolved[idx - 1].object

\* C2: under `latest`, each conflicting INSERT/UPDATE yields exactly two
\* adjacent resolved operations, a DELETE of the existing fact whose reason
\* contains the new object and then the operation itself, and exactly one
\* conflict with resolution "replace".
C2_LatestEmitsDeleteThenOp ==
    (strategy = "latest" /\ JustResolved) =>
        /\ Len(resolved) = EmittedLatest(confident, existingFacts, Len(confident))
        /\ Len(conflicts) = Cardinality(ConflictingIndexes(confident, existingFacts))
        /\ \A i \in ConflictingIndexes(confident, existingFacts) :
              LET op == confident[i]
                  old == TheExisting(op, existingFacts)
                  at == EmittedLatest(confident, existingFacts, i - 1) + 1
                  nth == Cardinality({j \in ConflictingIndexes(confident, existingFacts) : j <= i})
              IN /\ resolved[at].op = "DELETE"
                 /\ resolved[at].subject = old.subject
                 /\ resolved[at].predicate = old.predicate
                 /\ resolved[at].object = old.object
                 /\ \E k \in 1..Len(resolved[at].reason) : resolved[at].reason[k] = op.object
                 /\ resolved[at + 1] = op
                 /\ conflicts[nth].resolution = "replace"
                 /\ conflicts[nth].newOperation = op
                 /\ conflicts[nth].existingFact = old

\* a conflicting operation that is not the first of its batch
C2_Witness ==
    /\ strategy = "latest" /\ JustResolved
    /\ \E i \in ConflictingIndexes(confident, existingFacts) : i > 1

AllDuplicates(operations, existing) ==
    operations # <<>> /\ \A i \in 1..Len(operations) : IsDuplicate(operations[i], existing)

C3_Step ==
    /\ pc = "resolving" =>
          /\ \A k \in 1..Len(resolved') : ~IsDuplicate(resolved'[k], existingFacts)
          /\ \A k \in 1..Len(conflicts') :
                ~IsDuplicate(conflicts'[k].newOperation, existingFacts)
          /\ AllDuplicates(confident, existingFacts) =>
                (resolved' = <<>> /\ conflicts' = <<>>)
    /\ (pc \in {"resolving", "apply", "delete"}
        /\ AllDuplicates(confident, existingFacts)) => mem' = mem

\* C3: whatever the strategy, an INSERT/UPDATE equal in subject, predicate and
\* object to a valid fact adds no resolved operation and no conflict; a batch
\* of such operations alone resolves to the empty list and processing it
\* leaves the store as it was.
C3_DuplicatesAreDropped == [][C3_Step]_vars

\* a batch of duplicates has been processed under a strategy other than latest
C3_Witness ==
    /\ strategy = "keep_both"
    /\ pc = "done"
    /\ AllDuplicates(confident, existingFacts)
    /\ resolved = <<>>

\* C4: under `keep_both` a conflicting INSERT is emitted alone, and once the
\* pipeline has applied it the pre-existing fact is still valid with its
\* original object, next to a valid fact holding the new object.
C4_KeepBothKeepsBoth ==
    (/\ strategy = "keep_both"
     /\ pc = "done"
     /\ Len(confident) = 1
     /\ IsConflicting(confident[1], existingFacts)) =>
        LET op == confident[1]
            old == TheExisting(op, existingFacts)
            now == ValidFacts(mem[task.userId])
        IN /\ resolved = <<op>>
           /\ \E i \in 1..Len(now) : now[i].id = old.id /\ now[i].object = old.object
           /\ \E i \in 1..Len(now) : SameKey(now[i], op) /\ now[i].object = op.object

(***************************************************************************)
(* Properties of the DecayManager.                                         *)
(***************************************************************************)
\* C5: shouldPrune returns false for every fact with importance >= 9,
\* whatever its predicate class, confidence, age and reinforcement count.
C5_CriticalNeverPruned ==
    (dOut # Null /\ dFact.importance >= CriticalImportance) => ~dOut[1].prune

(***************************************************************************)
(* Properties of the ContextHydrator.                                      *)
(***************************************************************************)
\* C6: hydrate returns every currently valid fact of the principal with
\* importance >= 9, however many other facts the principal holds, however old
\* the critical fact is and whatever maxFacts is.
C6_CriticalAlwaysHydrated ==
    hydrated # Null =>
        LET u == hydrated[1].userId
            facts == hydrated[1].facts
            valid == ValidFacts(mem[u])
        IN \A i \in 1..Len(valid) :
              valid[i].importance >= CriticalImportance
              => \E k \in 1..Len(facts) : facts[k].id = valid[i].id

(***************************************************************************)
(* Properties of the TieredAdapter.                                        *)
(***************************************************************************)
TieredCall == tCalls'.calls # tCalls.calls

SameContent(f, g) ==
    /\ f.subject = g.subject
    /\ f.predicate = g.predicate
    /\ f.object = g.object
    /\ f.invalidatedAt = g.invalidatedAt

\* C7: with autoDemote on, after every completed call in a sequence of
\* upsertFact, getFacts, getFactById and warmCache calls the hot store holds
\* at most hotFactLimit valid facts of each principal.
C7_HotWithinLimit ==
    tConfig.autoDemote =>
        \A u \in Users : Len(ValidFacts(hot[u])) <= tConfig.hotFactLimit

\* C8: a call never removes, invalidates or modifies a cold fact other than
\* the one an upsert addresses: reads (with their promotion) leave the cold
\* store as it was, and an upsert of a (subject, predicate) the cold store
\* holds no valid fact for adds exactly one valid fact to it, demotion
\* included, so n such upserts leave exactly n valid cold facts.
C8_Step ==
    TieredCall =>
        LET u == tResult'.userId
            before == cold[u]
            after == cold'[u]
        IN /\ tResult'.call \in {"getFacts", "getFactById", "warmCache"} => after = before
           /\ tResult'.call = "upsertFact" =>
                LET saved == tResult'.facts[1]
                    Held(f) == SameKey(f, saved)
                IN Filter(ValidFacts(before), Held) = <<>> =>
                      /\ Len(after) = Len(before) + 1
                      /\ SubSeq(after, 1, Len(before)) = before
                      /\ Len(ValidFacts(after)) = Len(ValidFacts(before)) + 1

C8_ColdNeverLosesFacts == [][C8_Step]_vars

C8_Witness ==
    /\ tConfig.hotFactLimit = 1
    /\ tConfig.autoDemote
    /\ tConfig.autoPromote
    /\ tResult.call = "getFactById"
    /\ tResult.facts # <<>>
    /\ Len(ValidFacts(cold["u1"])) = 2
    /\ Len(hot["u1"]) > 0

\* C9: getFacts returns the hot store's result when it is non-empty, else the
\* cold store's result for the same filter; with autoPromote on it then
\* copies the first hotFactLimit of those facts into hot, where a following
\* read finds each of them.
C9_Step ==
    (TieredCall /\ tResult'.call = "getFacts" /\ tResult'.ok) =>
        LET u == tResult'.userId
            hotFacts == GetFacts(hot[u], tResult'.filter)
            coldFacts == GetFacts(cold[u], tResult'.filter)
            promoted == Slice0(coldFacts, tConfig.hotFactLimit)
            InHot(f) == \E i \in 1..Len(hot'[u]) : SameContent(hot'[u][i].fact, f)
        IN IF hotFacts # <<>>
           THEN tResult'.facts = hotFacts
           ELSE /\ tResult'.facts = coldFacts
                /\ tConfig.autoPromote => \A i \in 1..Len(promoted) : InHot(promoted[i])

C9_GetFactsHotThenCold == [][C9_Step]_vars

\* C10: upsertFact and updateFact write to the cold store first: when the
\* cold write fails, the call fails with that error and the hot store is as
\* it was; the hot store changes only in a call whose cold write succeeded.
C10_Step ==
    (TieredCall /\ tResult'.call \in {"upsertFact", "updateFact"}) =>
        /\ ~tResult'.coldOk => (~tResult'.ok /\ tResult'.error = "cold" /\ hot' = hot)
        /\ tResult'.error = "Fact not found" => (~tResult'.ok /\ hot' = hot)
        /\ hot' # hot => (tResult'.coldOk /\ tResult'.ok)

C10_ColdFirst == [][C10_Step]_vars

C10_Witness ==
    /\ tResult.call \in {"upsertFact", "updateFact"}
    /\ ~tResult.coldOk
    /\ tResult.hotOk
    /\ ~tResult.ok
    /\ Len(hot["u1"]) > 0

\* C11: when the hot store fails during upsertFact, getFacts or getFactById
\* while the cold store answers, the call still succeeds.
C11_HotFailureSwallowed ==
    (/\ tResult.call \in {"upsertFact", "getFacts", "getFactById"}
     /\ tResult.coldOk
     /\ ~tResult.hotOk) => tResult.ok

(***************************************************************************)
(* Properties of the queue.                                                *)
(***************************************************************************)
Range(f) == {f[i] : i \in DOMAIN f}

InFlight == Range(startOrder) \ finished

\* C12: queued tasks are started in enqueue order, and a task is started only
\* after every task started before it has finished: at most one is in
\* flight, also when enqueue is called while a task is in flight.
C12_FifoOneAtATime ==
    /\ Len(startOrder) <= Len(enqOrder)
    /\ SubSeq(enqOrder, 1, Len(startOrder)) = startOrder
    /\ \A i \in 1..(Len(startOrder) - 1) : startOrder[i] \in finished
    /\ Cardinality(InFlight) <= 1

C12_Witness ==
    /\ Len(startOrder) = 2
    /\ Len(enqOrder) = 3
    /\ Len(queue) = 1
    /\ pc = "llm"

\* C13: at every await boundary a non-empty queue implies processing = true,
\* and from some moment on every exchange given to enqueue has been
\* processed, provided every storage and LLM call returns or throws.
C13_EveryTaskProcessed ==
    /\ [](queue # <<>> => processing)
    /\ <>[](Range(enqOrder) \subseteq finished)

C13_Witness ==
    /\ Len(enqOrder) = 2
    /\ finished = {1, 2}
    /\ lastThrew
    /\ ~processing

\* C14: a task that throws is caught: the loop goes on with the next queued
\* task, or, the queue being empty, sets processing to false; an enqueue that
\* finds processing false starts the exchange it brings.
C14_Step ==
    /\ (pc = "failed" /\ pc' # "failed") =>
          IF queue # <<>>
          THEN processing' /\ pc' = "facts" /\ task' = Head(queue) /\ queue' = Tail(queue)
          ELSE ~processing' /\ pc' = "idle" /\ queue' = <<>>
    /\ (~processing /\ enqOrder' # enqOrder) =>
          processing' /\ pc' = "facts" /\ task'.x = enqOrder'[Len(enqOrder')]

C14_ErrorsDoNotStopTheQueue == [][C14_Step]_vars

C14_Witness ==
    /\ Len(startOrder) = 3
    /\ finished = {1, 2}
    /\ lastThrew
    /\ pc = "facts"
    /\ processing

\* C15: drain resolves only in a state where the queue is empty and no task
\* is in flight, and a drain that waits does resolve once the exchanges have
\* all been processed.
C15_Step ==
    (dpc # "resolved" /\ dpc' = "resolved") =>
        queue' = <<>> /\ ~processing' /\ pc' = "idle" /\ InFlight' = {}

C15_DrainResolvesWhenIdle ==
    /\ [][C15_Step]_vars
    /\ (dpc = "polling") ~> (dpc = "resolved")

C15_Witness ==
    /\ dpc = "resolved"
    /\ drainAwaits = {1, 2}
    /\ finished = {1, 2}
    /\ pendingDigests = <<>>

\* C16: when MemoryOS.drain() resolves, every exchange passed to digest
\* before drain was called has been processed.
C16_DrainCoversDigests ==
    dpc = "resolved" => drainAwaits \subseteq finished

Triples(facts) ==
    {<<facts[i].subject, facts[i].predicate, facts[i].object>> : i \in 1..Len(facts)}

\* C17: a task during whose applyOperations a storage call failed leaves the
\* user's set of valid facts as it was before the task.
C17_FailedCycleIsDropped ==
    (pc = "done" /\ applyFailed) =>
        Triples(ValidFacts(mem[task.userId])) = Triples(taskBefore)

(***************************************************************************)
(* Properties of validation and importance.                                *)
(***************************************************************************)
Solid(s) ==
    /\ s # <<>>
    /\ s[1] \notin Whitespace
    /\ s[Len(s)] \notin Whitespace

\* C18: every operation handed to the resolver has a known op, non-empty
\* trimmed subject, predicate and object, a predicate without lower-case
\* letters and without whitespace, a confidence within [0, 1] (in tenths) and
\* at least minConfidence, and an importance within [1, 10]; entries are only
\* ever dropped, and a response that is not an object with an operations
\* array ends the task with an empty batch.
C18_ResolverSeesValidOps ==
    /\ \A i \in 1..Len(confident) :
          LET op == confident[i]
          IN /\ op.op \in {"INSERT", "UPDATE", "DELETE"}
             /\ Solid(op.subject) /\ Solid(op.predicate) /\ Solid(op.object)
             /\ \A k \in 1..Len(op.predicate) :
                   /\ op.predicate[k] \notin Whitespace
                   /\ \A l \in 1..Len(LowerLetters) : op.predicate[k] # LowerLetters[l]
             /\ op.confidence \in 0..10 /\ op.confidence >= MinConfidence
             /\ op.importance \in 1..10
    /\ Len(confident) <= Len(rawResult.operations.items)
    /\ (rawResult # NoRaw /\ ~(rawResult.kind = "object" /\ rawResult.operations.isArray))
         => (confident = <<>> /\ pc = "done")

C18_Witness ==
    /\ pc = "resolving"
    /\ Len(rawResult.operations.items) = 2
    /\ rawResult.operations.items[2].predicate = Str(<<" ", "w", "o", "r", "k", "s", " ", " ", "a", "t", " ">>)
    /\ Len(confident) = 1
    /\ confident[1].predicate = WORKS_AT
    /\ confident[1].subject = <<"U", "s", "e", "r">>

HasSafetyFragment(predicate) ==
    \E i \in 1..Len(SafetyPredicates) : Includes(predicate, SafetyPredicates[i])

\* C19: the fact applyOperations writes for an INSERT or UPDATE has
\* importance >= 9 when its predicate contains a safety fragment, and the
\* importance of the operation otherwise.
C19_Step ==
    (/\ pc = "apply" /\ idx <= Len(resolved) /\ idx' = idx + 1
     /\ resolved[idx].op # "DELETE") =>
        LET op == resolved[idx]
            facts == ValidFacts(mem'[task.userId])
            written == {i \in 1..Len(facts) : /\ facts[i].subject = op.subject
                                              /\ facts[i].predicate = op.predicate
                                              /\ facts[i].object = op.object}
        IN /\ written # {}
           /\ \A i \in written :
                 IF HasSafetyFragment(op.predicate)
                 THEN facts[i].importance >= 9
                 ELSE facts[i].importance = op.importance

C19_SafetyFactsAreCritical == [][C19_Step]_vars

C19_Witness ==
    /\ pc = "done"
    /\ Len(resolved) = 2
    /\ resolved[1].predicate = FOOD_ALLERGY /\ resolved[1].importance = 3
    /\ resolved[2].predicate = WORKS_AT /\ resolved[2].importance = 10
    /\ LET facts == ValidFacts(mem[task.userId])
       IN /\ Len(facts) = 2
          /\ facts[1].predicate = FOOD_ALLERGY /\ facts[1].importance = 9
          /\ facts[2].predicate = WORKS_AT /\ facts[2].importance = 10

(***************************************************************************)
(* Properties of the semantic cache.                                       *)
(***************************************************************************)
\* C20: get returns the first of the non-expired entries of the user with the
\* highest similarity to the normalised query among those at or above
\* similarityThreshold, and adds one to its hits and to the hit statistic;
\* with no such entry it returns null, adds one to the miss statistic and
\* changes no entry.
C20_Step ==
    (cResult'.seq # cResult.seq) =>
        LET u == cResult'.userId
            entries == cache[u]
            queryLower == Trim(LowerCase(cResult'.query))
            Score(k) == CalculateSimilarity(queryLower, entries[k].queryLower)
            qualifying == {k \in 1..Len(entries) :
                             /\ clock - entries[k].timestamp <= cConfig.ttlMs
                             /\ AtLeast(Score(k), cConfig.similarityThreshold)}
            best == CHOOSE k \in qualifying :
                        \A l \in qualifying :
                            \/ Above(Score(k), Score(l))
                            \/ (~Above(Score(l), Score(k)) /\ k <= l)
        IN IF qualifying # {}
           THEN /\ cResult'.context = <<[source |-> entries[best].context, fromCache |-> TRUE]>>
                /\ cache' = [cache EXCEPT ![u][best].hits = @ + 1]
                /\ cStats' = [cStats EXCEPT !.hits = @ + 1]
           ELSE /\ cResult'.context = Null
                /\ cache' = cache
                /\ cStats' = [cStats EXCEPT !.misses = @ + 1]

C20_GetReturnsBest == [][C20_Step]_vars

\* C21: a lookup that differs from a stored, non-expired query of the same user
\* only in letter case, surrounding whitespace or one trailing punctuation mark
\* scores similarity 1 against it and is a cache hit, whatever the threshold.
Punctuation == {"?", "!", "."}
StripTrailingPunctuation(s) ==
    IF s # <<>> /\ s[Len(s)] \in Punctuation THEN SubSeq(s, 1, Len(s) - 1) ELSE s
Canonical(query) == StripTrailingPunctuation(Trim(LowerCase(query)))
C21_Case(k) ==
    /\ cResult'.seq # cResult.seq
    /\ k \in 1..Len(cache[cResult'.userId])
    /\ clock - cache[cResult'.userId][k].timestamp <= cConfig.ttlMs
    /\ Canonical(cache[cResult'.userId][k].query) = Canonical(cResult'.query)
C21_Step ==
    \A k \in 1..MaxCacheOps :
        C21_Case(k) =>
            /\ CalculateSimilarity(Trim(LowerCase(cResult'.query)),
                                   cache[cResult'.userId][k].queryLower) = One
            /\ cResult'.context # Null
C21_NormalizedQueriesHit == [][C21_Step]_vars

Count(entries, e) == Cardinality({i \in DOMAIN entries : entries[i] = e})
Without(entries, k) == SubSeq(entries, 1, k - 1) \o SubSeq(entries, k + 1, Len(entries))
SameEntries(a, b) ==
    /\ Len(a) = Len(b)
    /\ \A i \in DOMAIN a : Count(a, a[i]) = Count(b, a[i])
C23_Post(u, query) ==
    LET live == Filter(cache[u], LAMBDA e : clock - e.timestamp <= cConfig.ttlMs)
        after == cache'[u]
        Worst(k) == \A l \in DOMAIN live :
                        \/ live[k].hits < live[l].hits
                        \/ /\ live[k].hits = live[l].hits
                           /\ live[k].timestamp <= live[l].timestamp
    IN /\ after # <<>>
       /\ after[Len(after)].query = query
       /\ after[Len(after)].hits = 0
       /\ after[Len(after)].timestamp = clock
       /\ IF Len(live) = cConfig.maxSize
          THEN \E k \in DOMAIN live :
                   Worst(k) /\ SameEntries(Without(live, k), SubSeq(after, 1, Len(after) - 1))
          ELSE Len(live) < cConfig.maxSize
               /\ SameEntries(live, SubSeq(after, 1, Len(after) - 1))
C23_Step == \A u \in DOMAIN cache, query \in CacheQueries : CacheSet(u, query) => C23_Post(u, query)
C23_SetEvictsLeastUsedOldest == [][C23_Step]_vars
C23_Witness ==
    /\ cStats.evictions > 0
    /\ cConfig.maxSize = 2
    /\ \E u \in DOMAIN cache :
           /\ Len(cache[u]) = 2
           /\ cache[u][1].hits > 0
           /\ cache[u][2].hits = 0

\* C24: the cache is partitioned by principal: a get of p returns only a
\* context that was stored under p and is still among p's entries, and
\* invalidate(p) empties p's entries and leaves the entries and hit counts of
\* every other principal as they were.
C24_Step ==
    /\ (cResult'.seq # cResult.seq /\ cResult'.context # Null) =>
           /\ cResult'.context[1].source.userId = cResult'.userId
           /\ \E k \in DOMAIN cache[cResult'.userId] :
                  cache[cResult'.userId][k].context = cResult'.context[1].source
    /\ \A u \in DOMAIN cache :
           CacheInvalidate(u) =>
               /\ cache'[u] = <<>>
               /\ \A v \in DOMAIN cache \ {u} : cache'[v] = cache[v]
C24_PartitionedByPrincipal == [][C24_Step]_vars
C24_Witness ==
    /\ cResult.userId = "u2"
    /\ cResult.context = Null
    /\ cache["u2"] = <<>>
    /\ \E k \in DOMAIN cache["u1"] :
           /\ cache["u1"][k].query = cResult.query
           /\ cache["u1"][k].hits > 0
           /\ clock - cache["u1"][k].timestamp <= cConfig.ttlMs

(***************************************************************************)
(* Properties of the DecayManager.                                         *)
(***************************************************************************)
\* C25: with decay enabled, shouldPrune at time now is true exactly when the
\* weight at now is <= 0 or the expiry is non-null and <= now.
C25_PruneAtExpiry ==
    (dOut # Null /\ dCfg.enabled) =>
        (dOut[1].prune <=>
            \/ dOut[1].weight.num <= 0
            \/ dOut[1].expiresAt # Null /\ dOut[1].expiresAt[1] <= dNow)

\* C26: calculateDecayWeight returns a value in [0, 1] for every fact and time.
C26_WeightInUnitInterval ==
    dOut # Null => (0 <= dOut[1].weight.num /\ dOut[1].weight.num <= dOut[1].weight.den)

\* C27: the weight of a fact that is neither permanent nor ephemeral does not
\* grow with time: at every later time it is at most the weight now.
RegularClass(cfg, fact) ==
    /\ ToUpperCase(fact.predicate) \notin cfg.permanentPredicates
    /\ ToUpperCase(fact.predicate) \notin cfg.ephemeralPredicates
C27_WeightNonIncreasing ==
    (dOut # Null /\ RegularClass(dCfg, dFact)) =>
        \A t2 \in DecayTimes :
            t2 > dNow => AtLeast(dOut[1].weight, CalculateDecayWeight(dCfg, dFact, t2))
C27_Witness ==
    /\ dOut # Null
    /\ RegularClass(dCfg, dFact)
    /\ dFact.reinforcementCount = 1
    /\ Above(One, dOut[1].weight)
    /\ \E t2 \in DecayTimes :
           t2 > dNow /\ Above(dOut[1].weight, CalculateDecayWeight(dCfg, dFact, t2))

\* C28: a fact whose predicate is permanent or whose reinforcementCount has
\* reached the threshold has weight exactly 1, no expiry and is not pruned,
\* at every age and confidence, also when its predicate is ephemeral too.
C28_Case ==
    /\ dOut # Null
    /\ \/ ToUpperCase(dFact.predicate) \in dCfg.permanentPredicates
       \/ dFact.reinforcementCount >= dCfg.reinforcementThreshold
C28_PermanentNeverDecays ==
    C28_Case =>
        /\ dOut[1].weight = One
        /\ dOut[1].expiresAt = Null
        /\ dOut[1].prune = FALSE
C28_Witness ==
    /\ C28_Case
    /\ dCfg.enabled
    /\ ToUpperCase(dFact.predicate) \in dCfg.permanentPredicates \cap dCfg.ephemeralPredicates
    /\ dFact.reinforcementCount = 0
    /\ dNow - LastReinforced(dFact) > dCfg.ephemeralTtlHours

(***************************************************************************)
(* Properties of the ConsolidationWorker.                                  *)
(***************************************************************************)
\* C29: determineStage is long-term exactly when age >= workingHours and
\* accessCount >= longTermAccessThreshold, otherwise working exactly when
\* age >= shortTermHours or accessCount >= workingAccessThreshold, otherwise
\* short-term, whatever stage the fact has stored.
C29_Stage(fact) ==
    LET age == cwNow - fact.createdAt
        accesses == IF "accessCount" \in DOMAIN fact THEN fact.accessCount ELSE 0
        long == age >= cwConfig.workingHours /\ accesses >= cwConfig.longTermAccessThreshold
        work == age >= cwConfig.shortTermHours \/ accesses >= cwConfig.workingAccessThreshold
    IN /\ cwResult'.stage \in Stages
       /\ cwResult'.stage = "long-term" <=> long
       /\ cwResult'.stage = "working" <=> (~long /\ work)
       /\ cwResult'.stage = "short-term" <=> (~long /\ ~work)
C29_Step ==
    cwResult'.call = "determineStage" =>
        \A u \in ConsolidationUsers, factId \in ConsolidationIds :
            DetermineStageCall(u, factId) => C29_Stage(MapGet(cwMem[u], factId))
C30_Post(u, maxAgeHours) ==
    LET before == cwMem[u]
        after == cwMem'[u]
        Target(f) ==
            /\ f.invalidatedAt = Null
            /\ ("memoryStage" \in DOMAIN f => f.memoryStage = "short-term")
            /\ cwNow - f.createdAt > maxAgeHours
            /\ ("accessCount" \in DOMAIN f => f.accessCount = 0)
        targets == {i \in DOMAIN before : Target(before[i].fact)}
    IN /\ Len(after) = Len(before)
       /\ \A i \in DOMAIN before :
              IF i \in targets
              THEN /\ after[i].key = before[i].key
                   /\ after[i].fact = [before[i].fact EXCEPT !.invalidatedAt = <<cwNow>>]
              ELSE after[i] = before[i]
       /\ \A v \in ConsolidationUsers \ {u} : cwMem'[v] = cwMem[v]
       /\ cwResult'.pruned = Cardinality(targets)
C30_Step ==
    cwResult'.call = "pruneShortTerm" =>
        \A u \in ConsolidationUsers, maxAgeHours \in MaxAgeHours :
            PruneShortTerm(u, maxAgeHours) => C30_Post(u, maxAgeHours)
C30_PruneShortTerm == [][C30_Step]_vars
C30_Witness ==
    /\ cwResult.call = "pruneShortTerm"
    /\ cwResult.pruned = 1
    /\ \E u \in ConsolidationUsers :
           /\ \E i \in DOMAIN cwMem[u] : cwMem[u][i].fact.invalidatedAt = <<cwNow>>
           /\ \E i \in DOMAIN cwMem[u] :
                  /\ cwMem[u][i].fact.invalidatedAt = Null
                  /\ StoredStage(cwMem[u][i].fact) = "short-term"

(***************************************************************************)
(* Further properties of the TieredAdapter.                                *)
(***************************************************************************)
StillValid(facts) == Filter(facts, LAMBDA f : f.invalidatedAt = Null)

\* C34: getFacts of the TieredAdapter returns the same valid facts, compared
\* by subject, predicate and object, as the cold store returns for the filter.
C34_Step ==
    (TieredCall /\ tResult'.call = "getFacts" /\ tResult'.ok) =>
        Triples(StillValid(tResult'.facts))
            = Triples(StillValid(GetFacts(cold[tResult'.userId], tResult'.filter)))
C34_HotNeverChangesTheAnswer == [][C34_Step]_vars

\* C35: when deleteFact is called with the id of a valid fact that the
\* preceding upsertFact or getFacts returned, afterwards the cold store holds
\* no valid fact with its subject, predicate and object and a getFacts with
\* validOnly returns none.
C35_Deleted(u, f) ==
    LET Same(g) == g.subject = f.subject /\ g.predicate = f.predicate /\ g.object = f.object
        later == TieredGet(hot'[u], cold'[u], tConfig, ValidOnlyFilter, clock, nextId',
                           TRUE, TRUE).facts
    IN /\ Filter(StillValid(MapValues(cold'[u])), Same) = <<>>
       /\ Filter(later, Same) = <<>>
C35_Step ==
    (TieredCall /\ tResult'.call = "deleteFact" /\ tResult.call \in {"upsertFact", "getFacts"}
       /\ tResult.ok) =>
        \A i \in DOMAIN tResult.facts :
            (/\ tResult.facts[i].invalidatedAt = Null
             /\ TieredDeleteFact(tResult.userId, tResult.facts[i].id, TRUE, TRUE))
                => C35_Deleted(tResult.userId, tResult.facts[i])
C35_DeletedFactsStayDeleted == [][C35_Step]_vars

(***************************************************************************)
(* Further properties of the SemanticCache.                                *)
(***************************************************************************)
\* C36: the cache holds at most one entry for a principal and a query text.
C36_OneEntryPerQuery ==
    \A u \in DOMAIN cache :
        \A i, j \in DOMAIN cache[u] : cache[u][i].query = cache[u][j].query => i = j

(***************************************************************************)
(* Further properties of the extraction pipeline.                          *)
(***************************************************************************)
\* the INSERT / UPDATE operations of the batch for one subject and predicate
WritesTo(operations, subject, predicate) ==
    Filter(operations, LAMBDA op : /\ op.op # "DELETE"
                                   /\ op.subject = subject
                                   /\ op.predicate = predicate)

ValidFor(entries, subject, predicate) ==
    GetFacts(entries, [ValidOnlyFilter EXCEPT !.subject = <<subject>>,
                                              !.predicate = <<predicate>>])

\* C37: when processTask has applied, under "latest", a batch of INSERT /
\* UPDATE operations with several of them for one subject and predicate, the
\* one valid fact for the pair holds the object of the last of them.
C37_LastWriteWins ==
    (pc = "done" /\ strategy = "latest" /\ \A i \in DOMAIN confident : confident[i].op # "DELETE") =>
        \A subject \in Subjects, predicate \in Predicates :
            LET writes == WritesTo(confident, subject, predicate)
                valid == ValidFor(mem[task.userId], subject, predicate)
            IN Len(writes) >= 2 =>
                   /\ Len(valid) = 1
                   /\ valid[1].object = writes[Len(writes)].object

(***************************************************************************)
(* Further properties of the memory stages.                                *)
(***************************************************************************)
IsConsolidate == \E u \in ConsolidationUsers : Consolidate(u)

\* C38: no operation other than consolidate lowers the stored memoryStage of
\* a fact.
C38_Step ==
    (cwMem' # cwMem /\ ~IsConsolidate) =>
        \A u \in DOMAIN cwMem : \A i \in DOMAIN cwMem[u] :
            MapHas(cwMem'[u], cwMem[u][i].key) =>
                StageOrder[StoredStage(MapGet(cwMem'[u], cwMem[u][i].key))]
                    >= StageOrder[StoredStage(cwMem[u][i].fact)]
C38_StageNeverLowered == [][C38_Step]_vars

\* C40: when consolidate has returned, the stored stage of every valid fact
\* of the principal is the stage determineStage gives it, a consolidate at once
\* after it counts no promoted and no demoted fact, and a pruneShortTerm at
\* once after it with maxAgeHours >= shortTermHours deletes no fact.
C40_Post(u) ==
    LET entries == cwMem'[u]
        facts == ValidFacts(entries)
        again == ConsolidateLoop(entries, facts, 1, cwNow', NoCounts)
    IN /\ \A i \in DOMAIN facts :
              StoredStage(facts[i]) = DetermineStage(cwConfig, facts[i], cwNow')
       /\ again.counts.promoted = 0 /\ again.counts.demoted = 0
       /\ \A maxAgeHours \in cwConfig.shortTermHours..(MaxConsolidationHours + 1) :
              PruneLoop(entries, GetFactsByStage(entries, "short-term"), 1,
                        cwNow' - maxAgeHours, cwNow', 0).pruned = 0
C40_Step ==
    cwResult'.call = "consolidate" =>
        \A u \in ConsolidationUsers : Consolidate(u) => C40_Post(u)
C40_ConsolidateIsAFixpoint == [][C40_Step]_vars

\* consolidate has just promoted one of two valid facts of a principal, one
\* fact staying short-term and old enough for no pruning bound below
\* shortTermHours
C40_Witness ==
    /\ cwResult.call = "consolidate" /\ cwResult.promoted > 0
    /\ \E u \in ConsolidationUsers :
           /\ GetFactsByStage(cwMem[u], "working") # <<>>
           /\ GetFactsByStage(cwMem[u], "short-term") # <<>>

\* C39: while the clock does not go back and the accessCount of a fact does
\* not decrease, the stage determineStage gives the fact does not get lower;
\* and consolidate counts as demoted only facts whose stored stage a caller
\* other than consolidate wrote last.
C39_Monotone ==
    (cwMem' # cwMem \/ cwNow' # cwNow) =>
        \A u \in DOMAIN cwMem : \A i \in DOMAIN cwMem[u] :
            LET before == cwMem[u][i].fact
                after == MapGet(cwMem'[u], before.id)
            IN (/\ MapHas(cwMem'[u], before.id)
                /\ after.createdAt = before.createdAt
                /\ AccessCount(after) >= AccessCount(before)
                /\ cwNow' >= cwNow)
                   => StageOrder[DetermineStage(cwConfig, after, cwNow')]
                          >= StageOrder[DetermineStage(cwConfig, before, cwNow)]
C39_Demoted ==
    cwResult'.call = "consolidate" =>
        \A u \in DOMAIN cwMem :
            Consolidate(u) =>
                LET written == Restaged(cwMem[u], cwNow)
                    Lowered(f) == StageOrder[DetermineStage(cwConfig, f, cwNow)]
                                      < StageOrder[StoredStage(f)]
                IN /\ cwResult'.demoted = Len(Filter(written, Lowered))
                   /\ \A i \in DOMAIN written :
                          Lowered(written[i]) => <<u, written[i].id>> \in cwForeign
C39_StageNeverFallsOverTime == [][C39_Monotone /\ C39_Demoted]_vars

\* after time has passed a consolidate has counted a fact as demoted, and the
\* stage determineStage gives that fact is above short-term
C39_Witness ==
    /\ cwResult.call = "consolidate" /\ cwResult.demoted > 0 /\ cwNow > 0
    /\ \E u \in DOMAIN cwMem : GetFactsByStage(cwMem[u], "working") # <<>>

(***************************************************************************)
(* Properties of the direct calls.                                         *)
(***************************************************************************)
\* C31: no session operation of the TieredAdapter creates or changes a
\* session in the hot store.
C31_Step == sOps' # sOps => sHot' = sHot
C31_SessionsOnlyInCold == [][C31_Step]_vars

\* C32: updateFact and deleteFact called with an id the principal's map does
\* not hold end with a not-found error and leave the store as it was.
C32_Step ==
    (sOps' # sOps /\ sResult'.call \in {"updateFact", "deleteFact"}
       /\ ~MapHas(sFacts[sResult'.userId], sResult'.id)) =>
        /\ ~sResult'.ok
        /\ sResult'.error = "Fact not found"
        /\ sFacts' = sFacts
C32_MissingIdIsAnError == [][C32_Step]_vars

(***************************************************************************)
(* Properties of overlapping digestions.                                   *)
(***************************************************************************)
\* C33: while extractNow and the queue consumer digest for one principal at
\* the same time, the store never holds two valid facts with the same subject
\* and predicate.
C33_OverlapKeepsOneValid ==
    \A u \in DOMAIN oMem : \A i, j \in 1..Len(oMem[u]) :
        (/\ i # j
         /\ oMem[u][i].fact.invalidatedAt = Null
         /\ oMem[u][j].fact.invalidatedAt = Null)
        => ~SameKey(oMem[u][i].fact, oMem[u][j].fact)

\* both runs are inside applyOperations with writes still to make, each
\* having resolved against a snapshot that the other has changed since
C33_Witness ==
    /\ \A r \in Runs : oPc[r] = "apply" /\ oIdx[r] <= Len(oResolved[r])
    /\ oIdx["consumer"] >= 2
    /\ oResolved["extractNow"][oIdx["extractNow"]].op = "INSERT"
    /\ \E i \in DOMAIN oMem[OverlapUser] : oMem[OverlapUser][i].fact.invalidatedAt # Null

====
